---- MODULE Spec2Model ----
(***************************************************************************)
(* URL shortener with click analytics on a document store.                 *)
(*                                                                         *)
(* Two collections keyed by short code: urls (the Mapping) and analytics   *)
(* (the Click Ledger).  The operations modelled are the redirect GET with  *)
(* its click-recording transaction (app/api/redirect/[shortCode]/route.ts),*)
(* createShortUrl, getUrlData, getAnalyticsData and subscribeToAnalytics   *)
(* (lib/analytics.ts), RealTimeClickTracker.trackClick and the earlier     *)
(* subscribeToAnalytics kept in lib/real-time-tracker.ts.                  *)
(*                                                                         *)
(* Every await of the source is a point where other requests interleave,   *)
(* so every handler is cut into one action per await.  A store call may    *)
(* reject: each rejection is an action of its own.                         *)
(***************************************************************************)
EXTENDS Integers, Sequences, FiniteSets, TLC

(***************************************************************************)
(* Bounds of the model.                                                    *)
(***************************************************************************)
\* concurrent redirect GET requests
NumReqs == 2
\* concurrent redirect GET requests against one freshly created code
NumClickReqs == 3
\* concurrent createShortUrl calls
NumCreates == 1
\* RealTimeClickTracker.trackClick calls
NumTracks == 1
\* getAnalyticsData / getUrlData calls
NumReads == 1
\* the clock runs from 0 to MaxNow (days)
MaxNow == 2
\* serverConfirmListener registrations that are live at once
MaxConfirms == 2
\* Click Events of a Ledger that is there when an observer subscribes
MaxStoredEvents == 2

(***************************************************************************)
(* Program constants.                                                      *)
(***************************************************************************)
\* expiresAt.setDate(expiresAt.getDate() + 30)
ExpiryDays == 30
\* userAgent.substring(0, 200), referer.substring(0, 200)
MaxHeaderLen == 200
\* ip.substring(0, 15)
MaxIpLen == 15

(***************************************************************************)
(* Strings are sequences of one-character strings, so that startsWith,     *)
(* substring, split and trim are computed and not assumed.                 *)
(***************************************************************************)
HttpPrefix == <<"h", "t", "t", "p", ":", "/", "/">>
HttpsPrefix == <<"h", "t", "t", "p", "s", ":", "/", "/">>
EmptyStr == <<>>

\* String.prototype.startsWith
StartsWith(s, p) == Len(s) >= Len(p) /\ SubSeq(s, 1, Len(p)) = p

\* String.prototype.substring(a, b) for 0 <= a <= b
Substring(s, a, b) == SubSeq(s, a + 1, IF b < Len(s) THEN b ELSE Len(s))

\* s.split(",")[0]: the part of s before its first comma
RECURSIVE FirstEntry(_)
FirstEntry(s) ==
    IF s = <<>> \/ Head(s) = "," THEN <<>> ELSE <<Head(s)>> \o FirstEntry(Tail(s))

RECURSIVE TrimStart(_)
TrimStart(s) == IF s # <<>> /\ Head(s) = " " THEN TrimStart(Tail(s)) ELSE s

RECURSIVE TrimEnd(_)
TrimEnd(s) ==
    IF s # <<>> /\ s[Len(s)] = " " THEN TrimEnd(SubSeq(s, 1, Len(s) - 1)) ELSE s

\* String.prototype.trim
Trim(s) == TrimEnd(TrimStart(s))

\* a request header that is not sent: headers.get(...) answers null
NoHeader == <<"null">>

\* request.headers.get(name) || ""
HeaderOrEmpty(h) == IF h = NoHeader THEN EmptyStr ELSE h

\* forwardedFor.split(",")[0]?.trim() || ""
ClientIp(forwardedFor) == Trim(FirstEntry(HeaderOrEmpty(forwardedFor)))

(***************************************************************************)
(* The store.                                                              *)
(***************************************************************************)
Codes == {"abc123", "doesnotexist"}

\* the code the generator of the shorten POST hands out
NewCodes == {"abc123"}

\* a timestamp field that is not set
NoTime == -1

\* a document that does not exist
NoDoc == [exists |-> FALSE]

Exists(d) == d.exists

\* x || 0 on a counter field
OrZero(x) == IF x \in Nat THEN x ELSE 0

VARIABLES
    urls,       \* code -> Mapping document or NoDoc
    analytics,  \* code -> Ledger document or NoDoc
    ver,        \* update version of every document, the store's concurrency control
    now,        \* the clock, in days
    req,        \* redirect GET requests
    creates,    \* createShortUrl calls
    tracks,     \* RealTimeClickTracker.trackClick calls
    reads,      \* getUrlData / getAnalyticsData calls
    sub         \* the observer's subscribeToAnalytics subscription

vars == <<urls, analytics, ver, now, req, creates, tracks, reads, sub>>

(***************************************************************************)
(* Mapping: validation and normalisation done by the readers.              *)
(***************************************************************************)
\* a string field that is not set
MissingStr == <<"undefined">>

\* mutant: only a missing originalUrl is caught, an empty one is not
IsMissingOnly(s) == s = MissingStr

\* !urlData.originalUrl
IsFalsyStr(s) == s = EmptyStr \/ s = MissingStr

\* urlData.expiresAt && urlData.expiresAt.toDate() < new Date()
IsExpired(expiresAt, t) == expiresAt # NoTime /\ expiresAt < t

\* mutant: the two conditions are joined by && instead of ||
IsInactiveAndExpired(d, t) == ~d.isActive /\ IsExpired(d.expiresAt, t)

\* !urlData.isActive || (expired)
IsInactiveOrExpired(d, t) == ~d.isActive \/ IsExpired(d.expiresAt, t)

\* mutant: only http:// is looked for
NormalizeUrlHttpOnly(u) ==
    IF ~StartsWith(u, HttpPrefix) THEN HttpsPrefix \o u ELSE u

\* the protocol check of the redirect
NormalizeUrl(u) ==
    IF ~StartsWith(u, HttpPrefix) /\ ~StartsWith(u, HttpsPrefix)
    THEN HttpsPrefix \o u
    ELSE u

(***************************************************************************)
(* Store primitives: increment, arrayUnion, and the documents the code     *)
(* writes.                                                                 *)
(***************************************************************************)
\* arrayUnion(e): e is added unless an equal element is already there
ArrayUnion(arr, e) ==
    IF \E i \in 1..Len(arr) : arr[i] = e THEN arr ELSE Append(arr, e)

\* a count field that is not set
NoCount == -1

\* mutant: the id is the same for every event (say, a clock value alone, read
\* twice in one tick)
FreshIdReused(kind, who, draw) == <<kind, 0, 0>>

\* `${Date.now()}-${Math.random().toString(36).substr(2, 9)}`: a value no other
\* evaluation yields; it is named by who draws it and by which of its draws it is
FreshId(kind, who, draw) == <<kind, who, draw>>

\* an id field that is not set
NoId == <<"none", 0, 0>>

\* serverTimestamp() inside a value: the store writes its clock at commit.
\* The clickEvent that carries it is an element of clickEvents; the model takes
\* the store to accept the sentinel there, as the code expects it to.
ServerTimestamp == -2

\* the clickEvent as the store keeps it
ResolveEvent(e, t) ==
    IF e.timestamp = ServerTimestamp THEN [e EXCEPT !.timestamp = t] ELSE e

\* mutant: the ip is stored as it was received
RedirectClickEventRawIp(id, sid, userAgent, referer, ip) ==
    [id |-> id, timestamp |-> ServerTimestamp,
     userAgent |-> Substring(userAgent, 0, MaxHeaderLen),
     referer |-> Substring(referer, 0, MaxHeaderLen),
     ip |-> ip,
     sessionId |-> sid, clickSource |-> "direct", realTime |-> TRUE]

\* the clickEvent built inside the transaction of the redirect
RedirectClickEvent(id, sid, userAgent, referer, ip) ==
    [id |-> id, timestamp |-> ServerTimestamp,
     userAgent |-> Substring(userAgent, 0, MaxHeaderLen),
     referer |-> Substring(referer, 0, MaxHeaderLen),
     ip |-> Substring(ip, 0, MaxIpLen),
     sessionId |-> sid, clickSource |-> "direct", realTime |-> TRUE]

\* transaction.update(urlRef, {clicks: increment(1), lastClickAt})
UrlClickUpdate(d, t) ==
    [d EXCEPT !.clicks = OrZero(@) + 1, !.lastClickAt = t]

\* transaction.update(analyticsRef, {totalClicks: increment(1), lastClickAt,
\* clickEvents: arrayUnion(clickEvent), urlClicks})
AnalyticsClickUpdate(d, e, newClickCount, t) ==
    [d EXCEPT !.totalClicks = OrZero(@) + 1,
              !.lastClickAt = t,
              !.clickEvents = ArrayUnion(@, ResolveEvent(e, t)),
              !.urlClicks = newClickCount]

\* mutant: the new Ledger is seeded as createShortUrl seeds it, with no click
FirstClickAnalyticsEmpty(c, e, newClickCount, t) ==
    [exists |-> TRUE, shortCode |-> c, totalClicks |-> 0, createdAt |-> t,
     lastClickAt |-> t, clickEvents |-> <<>>,
     urlClicks |-> newClickCount, lastSessionId |-> NoId]

\* transaction.set(analyticsRef, {...}) when the Ledger does not exist
FirstClickAnalytics(c, e, newClickCount, t) ==
    [exists |-> TRUE, shortCode |-> c, totalClicks |-> 1, createdAt |-> t,
     lastClickAt |-> t, clickEvents |-> <<ResolveEvent(e, t)>>,
     urlClicks |-> newClickCount, lastSessionId |-> NoId]

(***************************************************************************)
(* The redirect GET and recordClickWithProperAnalytics.                    *)
(***************************************************************************)
Reqs == 1..NumReqs
ClickReqs == 1..NumClickReqs

NoSnap == [doc |-> NoDoc, ver |-> -1]
NoEvent == [id |-> NoId]

\* the user-agent, referer and x-forwarded-for headers of a request
NoHeaders == [userAgent |-> NoHeader, referer |-> NoHeader, forwardedFor |-> NoHeader]

\* headers is a history field: the headers as the request carried them
IdleReq ==
    [pc |-> "idle", shortCode |-> "", redirectUrl |-> EmptyStr,
     headers |-> NoHeaders,
     userAgent |-> EmptyStr, referer |-> EmptyStr, ip |-> EmptyStr,
     txUrl |-> NoSnap, txAna |-> NoSnap, event |-> NoEvent,
     newClickCount |-> 0, branch |-> "none", rc |-> "none", attempt |-> 0,
     status |-> 0, error |-> "", body |-> EmptyStr]

\* NextResponse.json({error}, {status})
RespondError(q, status, error) ==
    [q EXCEPT !.pc = "done", !.status = status, !.error = error]

\* mutant: the catch block of recordClickWithProperAnalytics throws again, and
\* the catch block of GET answers
RespondRethrown(q, outcome) ==
    IF outcome = "committed"
    THEN [q EXCEPT !.pc = "done", !.rc = outcome, !.status = 200,
                   !.body = q.redirectUrl,
                   !.txUrl = NoSnap, !.txAna = NoSnap, !.event = NoEvent,
                   !.newClickCount = 0]
    ELSE [q EXCEPT !.pc = "done", !.rc = outcome, !.status = 500,
                   !.error = "Internal server error",
                   !.txUrl = NoSnap, !.txAna = NoSnap, !.event = NoEvent,
                   !.newClickCount = 0]

\* recordClickWithProperAnalytics has returned (after its commit, or through its
\* catch block); the handler logs and answers NextResponse.json({redirectUrl})
RespondRedirect(q, outcome) ==
    [q EXCEPT !.pc = "done", !.rc = outcome, !.status = 200,
              !.body = q.redirectUrl,
              !.txUrl = NoSnap, !.txAna = NoSnap, !.event = NoEvent,
              !.newClickCount = 0]

\* mutant: the click is counted as soon as the Mapping is found, before the
\* validations
GetLookupCountsFirst(r, c, userAgent, referer, forwardedFor) ==
    /\ req[r].pc = "idle"
    /\ LET urlData == urls[c]
           q == [req[r] EXCEPT !.shortCode = c]
       IN /\ req' = [req EXCEPT ![r] =
               IF ~Exists(urlData) THEN RespondError(q, 404, "Short code not found")
               ELSE IF IsInactiveOrExpired(urlData, now)
                    THEN RespondError(q, 404, "Short code expired")
               ELSE IF IsFalsyStr(urlData.originalUrl)
                    THEN RespondError(q, 500, "Invalid URL data")
               ELSE [q EXCEPT !.pc = "txnGetUrl", !.rc = "pending",
                              !.redirectUrl = NormalizeUrl(urlData.originalUrl),
                              !.headers = [userAgent |-> userAgent,
                                           referer |-> referer,
                                           forwardedFor |-> forwardedFor],
                              !.userAgent = HeaderOrEmpty(userAgent),
                              !.referer = HeaderOrEmpty(referer),
                              !.ip = ClientIp(forwardedFor)]]
          /\ IF Exists(urlData)
             THEN /\ urls' = [urls EXCEPT ![c] = UrlClickUpdate(urlData, now)]
                  /\ ver' = [ver EXCEPT !.urls[c] = @ + 1]
             ELSE UNCHANGED <<urls, ver>>
    /\ UNCHANGED <<analytics, now, creates, tracks, reads, sub>>

\* GET up to its second await: getDoc(urlRef), the three validations, the
\* normalisation and the headers; then recordClickWithProperAnalytics starts
GetLookup(r, c, userAgent, referer, forwardedFor) ==
    /\ req[r].pc = "idle"
    /\ LET urlData == urls[c]
           q == [req[r] EXCEPT !.shortCode = c]
       IN req' = [req EXCEPT ![r] =
            IF ~Exists(urlData) THEN RespondError(q, 404, "Short code not found")
            ELSE IF IsInactiveOrExpired(urlData, now)
                 THEN RespondError(q, 404, "Short code expired")
            ELSE IF IsFalsyStr(urlData.originalUrl)
                 THEN RespondError(q, 500, "Invalid URL data")
            ELSE [q EXCEPT !.pc = "txnGetUrl", !.rc = "pending",
                           !.redirectUrl = NormalizeUrl(urlData.originalUrl),
                           !.headers = [userAgent |-> userAgent,
                                        referer |-> referer,
                                        forwardedFor |-> forwardedFor],
                           !.userAgent = HeaderOrEmpty(userAgent),
                           !.referer = HeaderOrEmpty(referer),
                           !.ip = ClientIp(forwardedFor)]]
    /\ UNCHANGED <<urls, analytics, ver, now, creates, tracks, reads, sub>>

\* getDoc(urlRef) rejects: the catch block of GET
GetLookupFail(r, c) ==
    /\ req[r].pc = "idle"
    /\ req' = [req EXCEPT ![r] =
                 RespondError([req[r] EXCEPT !.shortCode = c], 500,
                              "Internal server error")]
    /\ UNCHANGED <<urls, analytics, ver, now, creates, tracks, reads, sub>>

\* const urlDoc = await transaction.get(urlRef)
TxnGetUrl(r) ==
    /\ req[r].pc = "txnGetUrl"
    /\ LET c == req[r].shortCode
       IN req' = [req EXCEPT ![r].pc = "txnGetAnalytics",
                             ![r].txUrl = [doc |-> urls[c], ver |-> ver.urls[c]]]
    /\ UNCHANGED <<urls, analytics, ver, now, creates, tracks, reads, sub>>

\* the writes the update function buffers, decided on what it read
TxnBranch(anaDoc) == IF Exists(anaDoc) THEN "update" ELSE "set"

\* mutant: the existence check of the Mapping comes after the Ledger is written
TxnGetAnalyticsDangling(r) ==
    /\ req[r].pc = "txnGetAnalytics"
    /\ LET c == req[r].shortCode
           q == req[r]
           anaSnap == [doc |-> analytics[c], ver |-> ver.analytics[c]]
           e == RedirectClickEvent(FreshId("event", r, q.attempt),
                                   FreshId("session", r, q.attempt),
                                   q.userAgent, q.referer, q.ip)
       IN IF ~Exists(q.txUrl.doc)
          THEN /\ req' = [req EXCEPT ![r] = RespondRedirect(q, "threw")]
               /\ analytics' = [analytics EXCEPT ![c] =
                     IF Exists(analytics[c])
                     THEN AnalyticsClickUpdate(analytics[c], e, 1, now)
                     ELSE FirstClickAnalytics(c, e, 1, now)]
               /\ ver' = [ver EXCEPT !.analytics[c] = @ + 1]
          ELSE /\ req' = [req EXCEPT ![r] =
                     [q EXCEPT !.pc = "txnCommit",
                               !.txAna = anaSnap,
                               !.newClickCount = OrZero(q.txUrl.doc.clicks) + 1,
                               !.event = e,
                               !.branch = TxnBranch(anaSnap.doc)]]
               /\ UNCHANGED <<analytics, ver>>
    /\ UNCHANGED <<urls, now, creates, tracks, reads, sub>>

\* const analyticsDoc = await transaction.get(analyticsRef), then the rest of the
\* update function, which buffers its writes or throws
TxnGetAnalytics(r) ==
    /\ req[r].pc = "txnGetAnalytics"
    /\ LET c == req[r].shortCode
           q == req[r]
           anaSnap == [doc |-> analytics[c], ver |-> ver.analytics[c]]
       IN IF ~Exists(q.txUrl.doc)
          THEN \* throw new Error("URL document does not exist"), caught below
               req' = [req EXCEPT ![r] = RespondRedirect(q, "threw")]
          ELSE req' = [req EXCEPT ![r] =
                     [q EXCEPT !.pc = "txnCommit",
                               !.txAna = anaSnap,
                               !.newClickCount = OrZero(q.txUrl.doc.clicks) + 1,
                               !.event = RedirectClickEvent(
                                            FreshId("event", r, q.attempt),
                                            FreshId("session", r, q.attempt),
                                            q.userAgent, q.referer, q.ip),
                               !.branch = TxnBranch(anaSnap.doc)]]
    /\ UNCHANGED <<urls, analytics, ver, now, creates, tracks, reads, sub>>

\* the store checks at commit that what the transaction read is unchanged
TxnValid(q) ==
    /\ ver.urls[q.shortCode] = q.txUrl.ver
    /\ ver.analytics[q.shortCode] = q.txAna.ver

\* the Mapping as the commit leaves it
CommitUrl(q, t) == UrlClickUpdate(urls[q.shortCode], t)

\* mutant: the commit writes the Mapping alone
CommitAnalyticsSkipped(q, t) == analytics[q.shortCode]

\* the Ledger as the commit leaves it
CommitAnalytics(q, t) ==
    IF q.branch = "update"
    THEN AnalyticsClickUpdate(analytics[q.shortCode], q.event, q.newClickCount, t)
    ELSE FirstClickAnalytics(q.shortCode, q.event, q.newClickCount, t)

\* the commit: both buffered writes are applied in one step
TxnCommit(r) ==
    /\ req[r].pc = "txnCommit"
    /\ TxnValid(req[r])
    /\ LET c == req[r].shortCode
       IN /\ urls' = [urls EXCEPT ![c] = CommitUrl(req[r], now)]
          /\ analytics' = [analytics EXCEPT ![c] = CommitAnalytics(req[r], now)]
          /\ ver' = [ver EXCEPT !.urls[c] = @ + 1, !.analytics[c] = @ + 1]
    /\ req' = [req EXCEPT ![r] = RespondRedirect(req[r], "committed")]
    /\ UNCHANGED <<now, creates, tracks, reads, sub>>

\* mutant: on a conflict the call returns as if it had recorded the click
TxnRetryDropped(r) ==
    /\ req[r].pc = "txnCommit"
    /\ ~TxnValid(req[r])
    /\ req' = [req EXCEPT ![r] = RespondRedirect(req[r], "committed")]
    /\ UNCHANGED <<urls, analytics, ver, now, creates, tracks, reads, sub>>

\* a document read by the transaction was written meanwhile: runTransaction
\* runs the update function again
TxnRetry(r) ==
    /\ req[r].pc = "txnCommit"
    /\ ~TxnValid(req[r])
    /\ req' = [req EXCEPT ![r].pc = "txnGetUrl", ![r].txUrl = NoSnap,
                          ![r].attempt = @ + 1,
                          ![r].txAna = NoSnap, ![r].event = NoEvent,
                          ![r].newClickCount = 0, ![r].branch = "none"]
    /\ UNCHANGED <<urls, analytics, ver, now, creates, tracks, reads, sub>>

\* runTransaction rejects (the store fails, or gives up retrying): the catch
\* block of recordClickWithProperAnalytics logs and returns
TxnFail(r) ==
    /\ req[r].pc \in {"txnGetUrl", "txnGetAnalytics", "txnCommit"}
    /\ req' = [req EXCEPT ![r] =
                 RespondRedirect([req[r] EXCEPT !.branch = "none"], "failed")]
    /\ UNCHANGED <<urls, analytics, ver, now, creates, tracks, reads, sub>>

(***************************************************************************)
(* createShortUrl: two independent setDoc calls under Promise.all.         *)
(***************************************************************************)
Creates == 1..NumCreates

\* a URL the shorten POST accepts
UrlHttps == <<"h", "t", "t", "p", "s", ":", "/", "/", "e", ".", "c">>
UrlHttp == <<"h", "t", "t", "p", ":", "/", "/", "o", ".", "d">>
Urls == {UrlHttps, UrlHttp}

IdleCreate ==
    [pc |-> "idle", shortCode |-> "", originalUrl |-> EmptyStr,
     expiresAt |-> NoTime, urlWrite |-> "none", anaWrite |-> "none"]

\* const urlData: UrlData = {...}; createdAt is written by the store
NewUrlData(c, url, expiresAt, t) ==
    [exists |-> TRUE, originalUrl |-> url, shortCode |-> c, createdAt |-> t,
     clicks |-> 0, isActive |-> TRUE, expiresAt |-> expiresAt,
     lastClickAt |-> NoTime]

\* const analyticsData: AnalyticsData = {...}
NewAnalyticsData(c, t) ==
    [exists |-> TRUE, shortCode |-> c, totalClicks |-> 0, createdAt |-> t,
     lastClickAt |-> NoTime, clickEvents |-> <<>>, urlClicks |-> 0,
     lastSessionId |-> NoId]

\* createShortUrl up to Promise.all: both writes are sent
CreateStart(k, c, url) ==
    /\ creates[k].pc = "idle"
    /\ creates' = [creates EXCEPT ![k] =
         [pc |-> "writing", shortCode |-> c, originalUrl |-> url,
          expiresAt |-> now + ExpiryDays,
          urlWrite |-> "pending", anaWrite |-> "pending"]]
    /\ UNCHANGED <<urls, analytics, ver, now, req, tracks, reads, sub>>

\* the call is over when neither write is pending
CreateSettle(w) ==
    IF w.urlWrite # "pending" /\ w.anaWrite # "pending"
    THEN [w EXCEPT !.pc = "done"]
    ELSE w

\* mutant: the write merges into an existing Mapping, whose counter stays
CreateSetUrlMerged(k) ==
    /\ creates[k].urlWrite = "pending"
    /\ LET w == creates[k]
           fresh == NewUrlData(w.shortCode, w.originalUrl, w.expiresAt, now)
       IN /\ urls' = [urls EXCEPT ![w.shortCode] =
                        IF Exists(@)
                        THEN [fresh EXCEPT !.clicks = OrZero(urls[w.shortCode].clicks)]
                        ELSE fresh]
          /\ ver' = [ver EXCEPT !.urls[w.shortCode] = @ + 1]
          /\ creates' = [creates EXCEPT ![k] = CreateSettle([w EXCEPT !.urlWrite = "ok"])]
    /\ UNCHANGED <<analytics, now, req, tracks, reads, sub>>

\* setDoc(urlRef, urlData) is applied
CreateSetUrl(k) ==
    /\ creates[k].urlWrite = "pending"
    /\ LET w == creates[k]
       IN /\ urls' = [urls EXCEPT ![w.shortCode] =
                        NewUrlData(w.shortCode, w.originalUrl, w.expiresAt, now)]
          /\ ver' = [ver EXCEPT !.urls[w.shortCode] = @ + 1]
          /\ creates' = [creates EXCEPT ![k] = CreateSettle([w EXCEPT !.urlWrite = "ok"])]
    /\ UNCHANGED <<analytics, now, req, tracks, reads, sub>>

\* setDoc(analyticsRef, analyticsData) is applied
CreateSetAnalytics(k) ==
    /\ creates[k].anaWrite = "pending"
    /\ LET w == creates[k]
       IN /\ analytics' = [analytics EXCEPT ![w.shortCode] =
                             NewAnalyticsData(w.shortCode, now)]
          /\ ver' = [ver EXCEPT !.analytics[w.shortCode] = @ + 1]
          /\ creates' = [creates EXCEPT ![k] = CreateSettle([w EXCEPT !.anaWrite = "ok"])]
    /\ UNCHANGED <<urls, now, req, tracks, reads, sub>>

\* setDoc(urlRef, urlData) rejects; the other write is not undone
CreateSetUrlFail(k) ==
    /\ creates[k].urlWrite = "pending"
    /\ creates' = [creates EXCEPT ![k] =
                     CreateSettle([creates[k] EXCEPT !.urlWrite = "failed"])]
    /\ UNCHANGED <<urls, analytics, ver, now, req, tracks, reads, sub>>

\* setDoc(analyticsRef, analyticsData) rejects; the other write is not undone
CreateSetAnalyticsFail(k) ==
    /\ creates[k].anaWrite = "pending"
    /\ creates' = [creates EXCEPT ![k] =
                     CreateSettle([creates[k] EXCEPT !.anaWrite = "failed"])]
    /\ UNCHANGED <<urls, analytics, ver, now, req, tracks, reads, sub>>

(***************************************************************************)
(* The shorten POST: validation, generateShortCode, createShortUrl.        *)
(***************************************************************************)
\* the scheme of a URL is read without regard to case; of the letters only
\* those of the inputs below are folded
LowerChar(ch) ==
    CASE ch = "H" -> "h" [] ch = "T" -> "t" [] ch = "P" -> "p"
      [] ch = "S" -> "s" [] OTHER -> ch

Lower(s) == [i \in 1..Len(s) |-> LowerChar(s[i])]

RECURSIVE SkipSlashes(_)
SkipSlashes(s) == IF s # <<>> /\ Head(s) = "/" THEN SkipSlashes(Tail(s)) ELSE s

HttpScheme == <<"h", "t", "t", "p", ":">>
HttpsScheme == <<"h", "t", "t", "p", "s", ":">>

\* new URL(string) parses and url.protocol is "http:" or "https:": surrounding
\* spaces are dropped, the scheme is lower-cased, a host follows the scheme
IsValidUrl(str) ==
    LET t == Lower(Trim(str))
    IN \E p \in {HttpScheme, HttpsScheme} :
          /\ StartsWith(t, p)
          /\ SkipSlashes(SubSeq(t, Len(p) + 1, Len(t))) # <<>>

\* !url || typeof url !== "string", then !isValidUrl(url)
PostRejects(url) == IsFalsyStr(url) \/ ~IsValidUrl(url)

\* the POST answers 400 before createShortUrl is called
PostReject(k, url) ==
    /\ creates[k].pc = "idle"
    /\ creates' = [creates EXCEPT ![k] =
                     [IdleCreate EXCEPT !.pc = "done", !.originalUrl = url]]
    /\ UNCHANGED <<urls, analytics, ver, now, req, tracks, reads, sub>>

\* POST up to the await of createShortUrl; c is what generateShortCode drew
PostShorten(k, c, url) ==
    IF PostRejects(url) THEN PostReject(k, url) ELSE CreateStart(k, c, url)

\* the status the POST answers with once createShortUrl has settled
PostStatus(w) ==
    IF w.pc # "done" THEN 0
    ELSE IF PostRejects(w.originalUrl) THEN 400
    ELSE IF w.urlWrite = "ok" /\ w.anaWrite = "ok" THEN 200
    ELSE 500

(***************************************************************************)
(* RealTimeClickTracker.trackClick: two independent updateDoc calls under  *)
(* Promise.all.                                                            *)
(***************************************************************************)
Tracks == 1..NumTracks

\* getClientIP() answers a placeholder
ClientIpPlaceholder == <<"c", "l", "i", "e", "n", "t", "-", "i", "p">>

\* userAgent and referer are history fields: navigator.userAgent and
\* document.referrer when trackClick was called
IdleTrack ==
    [pc |-> "idle", shortCode |-> "", event |-> NoEvent, sessionId |-> NoId,
     userAgent |-> EmptyStr, referer |-> EmptyStr,
     urlWrite |-> "none", anaWrite |-> "none"]

\* the clickEvent built by trackClick
TrackerClickEvent(id, sid, userAgent, referer, clickSource) ==
    [id |-> id, timestamp |-> ServerTimestamp,
     userAgent |-> Substring(userAgent, 0, MaxHeaderLen),
     referer |-> Substring(referer, 0, MaxHeaderLen),
     ip |-> ClientIpPlaceholder,
     sessionId |-> sid, clickSource |-> clickSource, realTime |-> FALSE]

\* updateDoc(analyticsRef, {totalClicks: increment(1), lastClickAt,
\* clickEvents: arrayUnion(clickEvent), lastSessionId})
AnalyticsTrackUpdate(d, e, sid, t) ==
    [d EXCEPT !.totalClicks = OrZero(@) + 1,
              !.lastClickAt = t,
              !.clickEvents = ArrayUnion(@, ResolveEvent(e, t)),
              !.lastSessionId = sid]

\* new RealTimeClickTracker(shortCode), then trackClick up to Promise.all: both
\* updates are sent
TrackStart(k, c, userAgent, referer, clickSource) ==
    /\ tracks[k].pc = "idle"
    /\ tracks' = [tracks EXCEPT ![k] =
         [pc |-> "writing", shortCode |-> c,
          sessionId |-> FreshId("tracker", k, 0),
          event |-> TrackerClickEvent(FreshId("track", k, 0),
                                      FreshId("tracker", k, 0),
                                      userAgent, referer, clickSource),
          userAgent |-> userAgent, referer |-> referer,
          urlWrite |-> "pending", anaWrite |-> "pending"]]
    /\ UNCHANGED <<urls, analytics, ver, now, req, creates, reads, sub>>

\* trackClick is over (its catch block swallows a rejection) when neither
\* update is pending
TrackSettle(w) ==
    IF w.urlWrite # "pending" /\ w.anaWrite # "pending"
    THEN [w EXCEPT !.pc = "done"]
    ELSE w

\* updateDoc(urlRef, ...) reaches the store: applied, or rejected when the
\* document does not exist
TrackUpdateUrl(k) ==
    /\ tracks[k].urlWrite = "pending"
    /\ LET w == tracks[k]
           c == w.shortCode
       IN IF Exists(urls[c])
          THEN /\ urls' = [urls EXCEPT ![c] = UrlClickUpdate(urls[c], now)]
               /\ ver' = [ver EXCEPT !.urls[c] = @ + 1]
               /\ tracks' = [tracks EXCEPT ![k] =
                               TrackSettle([w EXCEPT !.urlWrite = "ok"])]
          ELSE /\ tracks' = [tracks EXCEPT ![k] =
                               TrackSettle([w EXCEPT !.urlWrite = "failed"])]
               /\ UNCHANGED <<urls, ver>>
    /\ UNCHANGED <<analytics, now, req, creates, reads, sub>>

\* updateDoc(analyticsRef, ...) reaches the store: applied, or rejected when
\* the document does not exist
TrackUpdateAnalytics(k) ==
    /\ tracks[k].anaWrite = "pending"
    /\ LET w == tracks[k]
           c == w.shortCode
       IN IF Exists(analytics[c])
          THEN /\ analytics' = [analytics EXCEPT ![c] =
                     AnalyticsTrackUpdate(analytics[c], w.event, w.sessionId, now)]
               /\ ver' = [ver EXCEPT !.analytics[c] = @ + 1]
               /\ tracks' = [tracks EXCEPT ![k] =
                               TrackSettle([w EXCEPT !.anaWrite = "ok"])]
          ELSE /\ tracks' = [tracks EXCEPT ![k] =
                               TrackSettle([w EXCEPT !.anaWrite = "failed"])]
               /\ UNCHANGED <<analytics, ver>>
    /\ UNCHANGED <<urls, now, req, creates, reads, sub>>

\* updateDoc(urlRef, ...) fails in the store; the other update is not undone
TrackUpdateUrlFail(k) ==
    /\ tracks[k].urlWrite = "pending"
    /\ tracks' = [tracks EXCEPT ![k] =
                    TrackSettle([tracks[k] EXCEPT !.urlWrite = "failed"])]
    /\ UNCHANGED <<urls, analytics, ver, now, req, creates, reads, sub>>

\* updateDoc(analyticsRef, ...) fails in the store; the other update is not
\* undone
TrackUpdateAnalyticsFail(k) ==
    /\ tracks[k].anaWrite = "pending"
    /\ tracks' = [tracks EXCEPT ![k] =
                    TrackSettle([tracks[k] EXCEPT !.anaWrite = "failed"])]
    /\ UNCHANGED <<urls, analytics, ver, now, req, creates, reads, sub>>

(***************************************************************************)
(* getUrlData and getAnalyticsData.                                        *)
(***************************************************************************)
Reads == 1..NumReads

\* fixes: the codes fixExistingAnalytics has started a repair transaction for
IdleRead ==
    [pc |-> "idle", op |-> "none", shortCode |-> "", result |-> NoDoc,
     readOk |-> FALSE, at |-> NoTime, newAnalytics |-> NoDoc,
     clickCount |-> 0, fixes |-> {}]

\* what getUrlData returns for the document it read: null is NoDoc
UrlDataResult(data, t) ==
    IF ~Exists(data) THEN NoDoc
    ELSE IF IsExpired(data.expiresAt, t) \/ ~data.isActive THEN NoDoc
    ELSE data

\* getUrlData: getDoc(urlRef) and the check of the document
GetUrlData(k, c) ==
    /\ reads[k].pc = "idle"
    /\ reads' = [reads EXCEPT ![k] =
         [IdleRead EXCEPT !.pc = "done", !.op = "getUrlData", !.shortCode = c,
                          !.readOk = TRUE, !.at = now,
                          !.result = UrlDataResult(urls[c], now)]]
    /\ UNCHANGED <<urls, analytics, ver, now, req, creates, tracks, sub>>

\* getUrlData: getDoc(urlRef) rejects, the catch block returns null
GetUrlDataFail(k, c) ==
    /\ reads[k].pc = "idle"
    /\ reads' = [reads EXCEPT ![k] =
         [IdleRead EXCEPT !.pc = "done", !.op = "getUrlData", !.shortCode = c,
                          !.at = now]]
    /\ UNCHANGED <<urls, analytics, ver, now, req, creates, tracks, sub>>

\* typeof data.totalClicks !== "number"
NotANumber(x) == x \notin Int \/ x = NoCount

\* the Ledger getAnalyticsData writes when none exists
MissingAnalytics(c, urlData) ==
    [exists |-> TRUE, shortCode |-> c, totalClicks |-> OrZero(urlData.clicks),
     createdAt |-> urlData.createdAt, lastClickAt |-> NoTime,
     clickEvents |-> <<>>, urlClicks |-> OrZero(urlData.clicks),
     lastSessionId |-> NoId]

\* getAnalyticsData: getDoc(analyticsRef) and what follows it up to the next
\* await
GaRead(k, c) ==
    /\ reads[k].pc = "idle"
    /\ LET data == analytics[c]
           q == [IdleRead EXCEPT !.op = "getAnalyticsData", !.shortCode = c,
                                 !.readOk = TRUE, !.at = now]
       IN reads' = [reads EXCEPT ![k] =
            IF ~Exists(data) THEN [q EXCEPT !.pc = "readUrl"]
            ELSE IF NotANumber(data.totalClicks)
                 THEN [q EXCEPT !.pc = "repair", !.result = data,
                                !.clickCount = Len(data.clickEvents)]
            ELSE [q EXCEPT !.pc = "done", !.result = data]]
    /\ UNCHANGED <<urls, analytics, ver, now, req, creates, tracks, sub>>

\* getAnalyticsData, no Ledger: getDoc(urlRef)
GaReadUrl(k) ==
    /\ reads[k].pc = "readUrl"
    /\ LET q == reads[k]
           urlData == urls[q.shortCode]
       IN reads' = [reads EXCEPT ![k] =
            IF Exists(urlData)
            THEN [q EXCEPT !.pc = "create",
                           !.newAnalytics = MissingAnalytics(q.shortCode, urlData)]
            ELSE [q EXCEPT !.pc = "done"]]
    /\ UNCHANGED <<urls, analytics, ver, now, req, creates, tracks, sub>>

\* getAnalyticsData, no Ledger: setDoc(analyticsRef, newAnalytics)
GaSetDoc(k) ==
    /\ reads[k].pc = "create"
    /\ LET q == reads[k]
       IN /\ analytics' = [analytics EXCEPT ![q.shortCode] = q.newAnalytics]
          /\ ver' = [ver EXCEPT !.analytics[q.shortCode] = @ + 1]
          /\ reads' = [reads EXCEPT ![k] =
                [q EXCEPT !.pc = "done", !.result = q.newAnalytics,
                          !.newAnalytics = NoDoc]]
    /\ UNCHANGED <<urls, now, req, creates, tracks, sub>>

\* mutant: the transaction reads the Ledger and writes the number of events
\* it finds there
GaRepairRecounted(k) ==
    /\ reads[k].pc = "repair"
    /\ LET q == reads[k]
           c == q.shortCode
       IN IF Exists(analytics[c])
          THEN /\ analytics' = [analytics EXCEPT ![c].totalClicks =
                                   Len(analytics[c].clickEvents)]
               /\ ver' = [ver EXCEPT !.analytics[c] = @ + 1]
               /\ reads' = [reads EXCEPT ![k] =
                     [q EXCEPT !.pc = "done",
                               !.result = [analytics[c] EXCEPT !.totalClicks =
                                             Len(analytics[c].clickEvents)]]]
          ELSE /\ reads' = [reads EXCEPT ![k] =
                     [q EXCEPT !.pc = "done", !.result = NoDoc, !.readOk = FALSE]]
               /\ UNCHANGED <<analytics, ver>>
    /\ UNCHANGED <<urls, now, req, creates, tracks, sub>>

\* getAnalyticsData, totalClicks is not a number: runTransaction(...
\* transaction.update(analyticsRef, {totalClicks: clickCount})), then
\* data.totalClicks = clickCount; the update of a Ledger that is gone rejects
\* and the catch block returns null
GaRepair(k) ==
    /\ reads[k].pc = "repair"
    /\ LET q == reads[k]
           c == q.shortCode
       IN IF Exists(analytics[c])
          THEN /\ analytics' = [analytics EXCEPT ![c].totalClicks = q.clickCount]
               /\ ver' = [ver EXCEPT !.analytics[c] = @ + 1]
               /\ reads' = [reads EXCEPT ![k] =
                     [q EXCEPT !.pc = "done",
                               !.result = [q.result EXCEPT !.totalClicks = q.clickCount]]]
          ELSE /\ reads' = [reads EXCEPT ![k] =
                     [q EXCEPT !.pc = "done", !.result = NoDoc, !.readOk = FALSE]]
               /\ UNCHANGED <<analytics, ver>>
    /\ UNCHANGED <<urls, now, req, creates, tracks, sub>>

\* getAnalyticsData: an await rejects, the catch block returns null
GaFail(k) ==
    /\ reads[k].pc \in {"readUrl", "create", "repair"}
    /\ reads' = [reads EXCEPT ![k] =
          [reads[k] EXCEPT !.pc = "done", !.result = NoDoc,
                           !.newAnalytics = NoDoc, !.readOk = FALSE]]
    /\ UNCHANGED <<urls, analytics, ver, now, req, creates, tracks, sub>>

(***************************************************************************)
(* fixExistingAnalytics.                                                   *)
(***************************************************************************)
\* typeof data.totalClicks !== "number" || data.totalClicks === 0, and
\* clickCount > 0
NeedsFix(d) ==
    /\ NotANumber(d.totalClicks) \/ d.totalClicks = 0
    /\ Len(d.clickEvents) > 0

\* await getDocs(analyticsQuery), then forEach: for every Ledger that needs
\* it a repair transaction is started; with none started, Promise.all([])
\* resolves and the function returns
FixGetDocs(k) ==
    /\ reads[k].pc = "idle"
    /\ LET toFix == {c \in Codes : Exists(analytics[c]) /\ NeedsFix(analytics[c])}
           q == [IdleRead EXCEPT !.op = "fixExistingAnalytics", !.readOk = TRUE,
                                 !.at = now, !.fixes = toFix]
       IN reads' = [reads EXCEPT ![k] =
                      [q EXCEPT !.pc = IF toFix = {} THEN "done" ELSE "fixing"]]
    /\ UNCHANGED <<urls, analytics, ver, now, req, creates, tracks, sub>>

\* getDocs rejects: the catch block logs
FixGetDocsFail(k) ==
    /\ reads[k].pc = "idle"
    /\ reads' = [reads EXCEPT ![k] =
          [IdleRead EXCEPT !.pc = "done", !.op = "fixExistingAnalytics",
                           !.at = now]]
    /\ UNCHANGED <<urls, analytics, ver, now, req, creates, tracks, sub>>

\* await Promise.all(fixes): the update function of every repair transaction
\* calls doc(db, "analytics", shortCode), where doc is the parameter of the
\* forEach callback, a snapshot, and not the function of the store: the call
\* throws, the transaction rejects with nothing written, the catch block logs
FixReject(k) ==
    /\ reads[k].pc = "fixing"
    /\ reads' = [reads EXCEPT ![k] = [reads[k] EXCEPT !.pc = "done",
                                                      !.readOk = FALSE]]
    /\ UNCHANGED <<urls, analytics, ver, now, req, creates, tracks, sub>>

(***************************************************************************)
(* subscribeToAnalytics, in its two versions: the one of lib/analytics.ts, *)
(* whose snapshot handler is async, and the one kept in                    *)
(* lib/real-time-tracker.ts, whose error handler subscribes again.  One    *)
(* observer, one subscription.  The async handler is started for every     *)
(* snapshot, also while earlier invocations of it are awaiting their       *)
(* repair transaction.                                                     *)
(***************************************************************************)
SubVersions == {"analytics", "tracker"}

\* what a listener has been shown: the version of the Ledger and whether a
\* local write was pending; nothing yet
NoSeen == <<-1, FALSE>>

\* the state of the AnalyticsPage that observes: what it displays
\* (analyticsData, clickCount, isNewClick), its refs and what it has started:
\* timeouts counts the pending setTimeout calls, interval is the connection
\* monitor, listeners the length of the tracker's listeners list, fetch the
\* call of fetchInitialData, rerun whether the effect ran again after
\* isRealTime changed
IdlePage ==
    [analyticsData |-> NoDoc, clickCount |-> 0, previousClickCount |-> 0,
     isNewClick |-> FALSE, isRealTime |-> FALSE, timeouts |-> 0,
     interval |-> FALSE, listeners |-> 0, fetch |-> "none", rerun |-> FALSE]

\* app/analytics/[shortCode]/page.tsx: the callback given to
\* subscribeToAnalytics; every newer count starts a timeout of its own
PageCallback(p, data) ==
    IF ~Exists(data) THEN p
    ELSE LET newClickCount == OrZero(data.totalClicks)
             q == [p EXCEPT !.analyticsData = data, !.isRealTime = TRUE]
         IN IF newClickCount > p.previousClickCount
            THEN [q EXCEPT !.isNewClick = TRUE,
                           !.clickCount = newClickCount,
                           !.previousClickCount = newClickCount,
                           !.timeouts = @ + 1]
            ELSE q

\* the page with the tracker: the callback given to
\* subscribeToRealTimeUpdates; the timeout of the previous change is cleared
\* before the next one is set
RealTimePageCallback(p, data) ==
    LET newClickCount == OrZero(data.totalClicks)
        q == [p EXCEPT !.analyticsData = data, !.isRealTime = TRUE]
    IN IF newClickCount # p.previousClickCount
       THEN [q EXCEPT !.isNewClick = TRUE,
                      !.clickCount = newClickCount,
                      !.previousClickCount = newClickCount,
                      !.timeouts = 1]
       ELSE q

\* fixes holds the invocations of the async handler that are awaiting their
\* repair transaction, each with the data of its snapshot; confirm counts the
\* nested serverConfirmListener registrations that are live; late is a history
\* field: a callback took place after unsubscribe was called
IdleSub ==
    [pc |-> "none", version |-> "none", shortCode |-> "", seen |-> NoSeen,
     fixes |-> <<>>, confirm |-> 0, timer |-> FALSE,
     resub |-> FALSE, resubSeen |-> NoSeen, unsubscribed |-> FALSE,
     called |-> FALSE, last |-> NoDoc, late |-> FALSE, page |-> IdlePage]

\* doc.metadata.hasPendingWrites: an updateDoc of this client on the Ledger
\* is not acknowledged yet
PendingWrites(c) ==
    \E k \in DOMAIN tracks :
       tracks[k].shortCode = c /\ tracks[k].anaWrite = "pending"

\* the Ledger as a snapshot shows it: the store's document with this client's
\* pending update applied
LocalView(c) ==
    IF PendingWrites(c) /\ Exists(analytics[c])
    THEN LET k == CHOOSE j \in DOMAIN tracks :
                     tracks[j].shortCode = c /\ tracks[j].anaWrite = "pending"
         IN AnalyticsTrackUpdate(analytics[c], tracks[k].event,
                                 tracks[k].sessionId, now)
    ELSE analytics[c]

\* what the next snapshot of the Ledger shows
Snap(c) == <<ver.analytics[c], PendingWrites(c)>>

\* callback(data); null is NoDoc
Callback(s, data) ==
    [s EXCEPT !.called = TRUE, !.last = data, !.late = @ \/ s.unsubscribed,
              !.page = PageCallback(@, data)]

\* the effect of the page: fetchInitialData() is called, then
\* subscribeToAnalytics(shortCode, callback): onSnapshot registers the listener
Subscribe(version, c) ==
    /\ sub.pc = "none"
    /\ sub' = [IdleSub EXCEPT !.pc = "listening", !.version = version,
                              !.shortCode = c, !.page.fetch = "pending"]
    /\ UNCHANGED <<urls, analytics, ver, now, req, creates, tracks, reads>>

\* fetchInitialData after its await: getUrlData has returned the Mapping, whose
\* clicks are displayed, or null
FetchInitialData ==
    /\ sub.page.fetch = "pending"
    /\ LET urlResult == UrlDataResult(urls[sub.shortCode], now)
       IN sub' = IF Exists(urlResult)
                 THEN [sub EXCEPT !.page.fetch = "done",
                                  !.page.clickCount = OrZero(urlResult.clicks),
                                  !.page.previousClickCount = OrZero(urlResult.clicks)]
                 ELSE [sub EXCEPT !.page.fetch = "error"]
    /\ UNCHANGED <<urls, analytics, ver, now, req, creates, tracks, reads>>

\* a timeout set by the callback of the page fires: setIsNewClick(false)
AnimationTimeout ==
    /\ sub.page.timeouts > 0
    /\ sub' = [sub EXCEPT !.page.timeouts = @ - 1, !.page.isNewClick = FALSE]
    /\ UNCHANGED <<urls, analytics, ver, now, req, creates, tracks, reads>>

\* the function returned by subscribeToAnalytics: onSnapshot's unsubscribe,
\* which removes the listener it was returned for
Unsubscribe ==
    /\ sub.pc \in {"listening", "errored"}
    /\ ~sub.unsubscribed
    /\ sub' = [sub EXCEPT !.pc = "closed", !.unsubscribed = TRUE]
    /\ UNCHANGED <<urls, analytics, ver, now, req, creates, tracks, reads>>

\* a sequence without its i-th element
Without(q, i) == SubSeq(q, 1, i - 1) \o SubSeq(q, i + 1, Len(q))

\* lib/analytics.ts: the async snapshot handler up to its await, or to its end
\* when it awaits nothing.  Without a Ledger the handler goes on to
\* doc(db, "urls", shortCode), where doc is its own parameter, the snapshot,
\* and not the function of the store: the call throws, the catch block logs,
\* callback(null); the getDoc and the setDoc that follow are never reached
OnSnapshot ==
    /\ sub.pc = "listening"
    /\ sub.version = "analytics"
    /\ sub.seen # Snap(sub.shortCode)
    /\ LET d == LocalView(sub.shortCode)
           s == [sub EXCEPT !.seen = Snap(sub.shortCode)]
       IN sub' = IF ~Exists(d) THEN Callback(s, NoDoc)
                 ELSE IF NeedsFix(d)
                      THEN [s EXCEPT !.fixes =
                              Append(@, [data |-> d, snap |-> Snap(sub.shortCode)])]
                 ELSE Callback(s, d)
    /\ UNCHANGED <<urls, analytics, ver, now, req, creates, tracks, reads>>

\* mutant: the repair writes a count of 0
OnSnapshotFixZero(i) ==
    /\ i \in 1..Len(sub.fixes)
    /\ LET c == sub.shortCode
           data == sub.fixes[i].data
           s == [sub EXCEPT !.fixes = Without(@, i)]
       IN IF Exists(analytics[c])
          THEN /\ analytics' = [analytics EXCEPT ![c].totalClicks = 0]
               /\ ver' = [ver EXCEPT !.analytics[c] = @ + 1]
               /\ sub' = Callback(s, [data EXCEPT !.totalClicks = 0])
          ELSE /\ sub' = Callback(s, data)
               /\ UNCHANGED <<analytics, ver>>
    /\ UNCHANGED <<urls, now, req, creates, tracks, reads>>

\* await runTransaction(... transaction.update(analyticsRef, {totalClicks:
\* clickCount})), data.totalClicks = clickCount, callback(data); the update of
\* a Ledger that is gone rejects, the catch block logs, callback(data)
OnSnapshotFix(i) ==
    /\ i \in 1..Len(sub.fixes)
    /\ LET c == sub.shortCode
           data == sub.fixes[i].data
           clickCount == Len(data.clickEvents)
           s == [sub EXCEPT !.fixes = Without(@, i)]
       IN IF Exists(analytics[c])
          THEN /\ analytics' = [analytics EXCEPT ![c].totalClicks = clickCount]
               /\ ver' = [ver EXCEPT !.analytics[c] = @ + 1]
               /\ sub' = Callback(s, [data EXCEPT !.totalClicks = clickCount])
          ELSE /\ sub' = Callback(s, data)
               /\ UNCHANGED <<analytics, ver>>
    /\ UNCHANGED <<urls, now, req, creates, tracks, reads>>

\* the repair transaction fails in the store: the catch block logs,
\* callback(data)
OnSnapshotFixFail(i) ==
    /\ i \in 1..Len(sub.fixes)
    /\ sub' = Callback([sub EXCEPT !.fixes = Without(@, i)], sub.fixes[i].data)
    /\ UNCHANGED <<urls, analytics, ver, now, req, creates, tracks, reads>>

\* lib/analytics.ts: the error handler of the listener, which the error ends
OnError ==
    /\ sub.pc = "listening"
    /\ sub.version = "analytics"
    /\ sub' = Callback([sub EXCEPT !.pc = "errored"], NoDoc)
    /\ UNCHANGED <<urls, analytics, ver, now, req, creates, tracks, reads>>

\* lib/real-time-tracker.ts: the snapshot handler: callback(data) and, on a
\* pending write, a nested listener for the server's confirmation; or
\* callback(null)
TrackerHandler(s, c) ==
    IF Exists(LocalView(c))
    THEN [Callback(s, LocalView(c)) EXCEPT
             !.confirm = IF PendingWrites(c) THEN @ + 1 ELSE @]
    ELSE Callback(s, NoDoc)

\* the handler may register one more serverConfirmListener
RoomToConfirm(c) ==
    (Exists(LocalView(c)) /\ PendingWrites(c)) => sub.confirm < MaxConfirms

\* lib/real-time-tracker.ts: a snapshot reaches the listener
TrackerOnSnapshot ==
    /\ sub.pc = "listening"
    /\ sub.version = "tracker"
    /\ sub.seen # Snap(sub.shortCode)
    /\ RoomToConfirm(sub.shortCode)
    /\ sub' = TrackerHandler([sub EXCEPT !.seen = Snap(sub.shortCode)],
                             sub.shortCode)
    /\ UNCHANGED <<urls, analytics, ver, now, req, creates, tracks, reads>>

\* a serverConfirmListener that goes on listening after its callback
TrackerServerConfirmKept ==
    /\ sub.confirm > 0
    /\ Exists(analytics[sub.shortCode])
    /\ ~PendingWrites(sub.shortCode)
    /\ sub' = Callback(sub, analytics[sub.shortCode])
    /\ UNCHANGED <<urls, analytics, ver, now, req, creates, tracks, reads>>

\* one serverConfirmListener gets a snapshot of an existing Ledger without
\* pending writes: callback(serverDoc.data()), serverConfirmListener(), which
\* unsubscribes it
TrackerServerConfirm ==
    /\ sub.confirm > 0
    /\ Exists(analytics[sub.shortCode])
    /\ ~PendingWrites(sub.shortCode)
    /\ sub' = Callback([sub EXCEPT !.confirm = @ - 1], analytics[sub.shortCode])
    /\ UNCHANGED <<urls, analytics, ver, now, req, creates, tracks, reads>>

\* lib/real-time-tracker.ts: the error handler: setTimeout(..., 2000),
\* callback(null)
TrackerOnError ==
    /\ sub.pc = "listening"
    /\ sub.version = "tracker"
    /\ sub' = Callback([sub EXCEPT !.pc = "errored", !.timer = TRUE], NoDoc)
    /\ UNCHANGED <<urls, analytics, ver, now, req, creates, tracks, reads>>

\* the timer fires: subscribeToAnalytics(shortCode, callback), whose result is
\* dropped
TrackerRetryTimer ==
    /\ sub.timer
    /\ sub' = [sub EXCEPT !.timer = FALSE, !.resub = TRUE, !.resubSeen = NoSeen]
    /\ UNCHANGED <<urls, analytics, ver, now, req, creates, tracks, reads>>

\* a snapshot reaches the listener the timer registered
TrackerResubSnapshot ==
    /\ sub.resub
    /\ sub.resubSeen # Snap(sub.shortCode)
    /\ RoomToConfirm(sub.shortCode)
    /\ sub' = TrackerHandler([sub EXCEPT !.resubSeen = Snap(sub.shortCode)],
                             sub.shortCode)
    /\ UNCHANGED <<urls, analytics, ver, now, req, creates, tracks, reads>>

\* the error handler of the listener the timer registered
TrackerResubError ==
    /\ sub.resub
    /\ sub' = Callback([sub EXCEPT !.resub = FALSE, !.timer = TRUE], NoDoc)
    /\ UNCHANGED <<urls, analytics, ver, now, req, creates, tracks, reads>>

(***************************************************************************)
(* The page that observes through its RealTimeClickTracker:                *)
(* subscribeToRealTimeUpdates, destroy, and the two effects of the page.   *)
(***************************************************************************)
\* both effects run: new RealTimeClickTracker(shortCode); fetchInitialData(),
\* subscribeToRealTimeUpdates(callback), which pushes the unsubscribe function
\* on the listeners list, and setInterval(..., 5000)
RealTimeMount(c) ==
    /\ sub.pc = "none"
    /\ sub' = [IdleSub EXCEPT !.pc = "listening", !.version = "realtime",
                              !.shortCode = c, !.page.fetch = "pending",
                              !.page.listeners = 1, !.page.interval = TRUE]
    /\ UNCHANGED <<urls, analytics, ver, now, req, creates, tracks, reads>>

\* the snapshot handler of subscribeToRealTimeUpdates: callback(data) when
\* the Ledger exists, nothing otherwise
RealTimeOnSnapshot ==
    /\ sub.pc = "listening"
    /\ sub.version = "realtime"
    /\ sub.seen # Snap(sub.shortCode)
    /\ LET d == LocalView(sub.shortCode)
           s == [sub EXCEPT !.seen = Snap(sub.shortCode)]
       IN sub' = IF Exists(d)
                 THEN [s EXCEPT !.called = TRUE, !.last = d,
                                !.page = RealTimePageCallback(@, d)]
                 ELSE s
    /\ UNCHANGED <<urls, analytics, ver, now, req, creates, tracks, reads>>

\* the error handler of subscribeToRealTimeUpdates logs; the error has ended
\* the listener
RealTimeOnError ==
    /\ sub.pc = "listening"
    /\ sub.version = "realtime"
    /\ sub' = [sub EXCEPT !.pc = "errored"]
    /\ UNCHANGED <<urls, analytics, ver, now, req, creates, tracks, reads>>

\* isRealTime has changed, it is a dependency of the second effect: its
\* cleanup runs (unsubscribe(), clearInterval, clearTimeout), then the effect
\* again: fetchInitialData(), subscribeToRealTimeUpdates(callback), which
\* pushes one more entry on the listeners list, setInterval
RealTimeEffectAgain ==
    /\ sub.version = "realtime"
    /\ ~sub.unsubscribed
    /\ sub.page.isRealTime
    /\ ~sub.page.rerun
    /\ sub' = [sub EXCEPT !.pc = "listening", !.seen = NoSeen,
                          !.page.rerun = TRUE, !.page.fetch = "pending",
                          !.page.timeouts = 0, !.page.interval = TRUE,
                          !.page.listeners = @ + 1]
    /\ UNCHANGED <<urls, analytics, ver, now, req, creates, tracks, reads>>

\* the page is left: the cleanup of the first effect calls destroy(), which
\* calls every entry of the listeners list and empties it, and clearTimeout;
\* the cleanup of the second calls unsubscribe(), clearInterval, clearTimeout
RealTimeUnmount ==
    /\ sub.version = "realtime"
    /\ ~sub.unsubscribed
    /\ sub' = [sub EXCEPT !.pc = "closed", !.unsubscribed = TRUE,
                          !.page.listeners = 0, !.page.timeouts = 0,
                          !.page.interval = FALSE]
    /\ UNCHANGED <<urls, analytics, ver, now, req, creates, tracks, reads>>

(***************************************************************************)
(* Inputs.                                                                 *)
(***************************************************************************)
UserAgentIn == <<"U", "A">>
RefererIn == <<"h", "t", "t", "p", ":", "/", "/", "r">>
ForwardedForIn == <<" ", "1", ".", "2", " ", ",", "9">>

\* the clock
Tick ==
    /\ now < MaxNow
    /\ now' = now + 1
    /\ UNCHANGED <<urls, analytics, ver, req, creates, tracks, reads, sub>>

(***************************************************************************)
(* The system: every operation, on an empty store.                         *)
(***************************************************************************)
EmptyStore == [c \in Codes |-> NoDoc]

Init ==
    /\ urls = EmptyStore
    /\ analytics = EmptyStore
    /\ ver = [urls |-> [c \in Codes |-> 0], analytics |-> [c \in Codes |-> 0]]
    /\ now = 0
    /\ req = [r \in Reqs |-> IdleReq]
    /\ creates = [k \in Creates |-> IdleCreate]
    /\ tracks = [k \in Tracks |-> IdleTrack]
    /\ reads = [k \in Reads |-> IdleRead]
    /\ sub = IdleSub

Next ==
    \/ \E r \in Reqs, c \in Codes :
          GetLookup(r, c, UserAgentIn, RefererIn, ForwardedForIn)
    \/ \E r \in Reqs, c \in Codes : GetLookupFail(r, c)
    \/ \E r \in Reqs : TxnGetUrl(r)
    \/ \E r \in Reqs : TxnGetAnalytics(r)
    \/ \E r \in Reqs : TxnCommit(r)
    \/ \E r \in Reqs : TxnRetry(r)
    \/ \E r \in Reqs : TxnFail(r)
    \/ \E k \in Creates, c \in NewCodes, u \in Urls : CreateStart(k, c, u)
    \/ \E k \in Creates : CreateSetUrl(k)
    \/ \E k \in Creates : CreateSetAnalytics(k)
    \/ \E k \in Creates : CreateSetUrlFail(k)
    \/ \E k \in Creates : CreateSetAnalyticsFail(k)
    \/ \E k \in Tracks, c \in NewCodes :
          TrackStart(k, c, UserAgentIn, RefererIn, "analytics_page")
    \/ \E k \in Tracks : TrackUpdateUrl(k)
    \/ \E k \in Tracks : TrackUpdateAnalytics(k)
    \/ \E k \in Tracks : TrackUpdateUrlFail(k)
    \/ \E k \in Tracks : TrackUpdateAnalyticsFail(k)
    \/ \E k \in Reads, c \in NewCodes : GetUrlData(k, c)
    \/ \E k \in Reads, c \in NewCodes : GetUrlDataFail(k, c)
    \/ \E k \in Reads, c \in NewCodes : GaRead(k, c)
    \/ \E k \in Reads : GaReadUrl(k)
    \/ \E k \in Reads : GaSetDoc(k)
    \/ \E k \in Reads : GaFail(k)

Spec == Init /\ [][Next]_vars

(***************************************************************************)
(* Concurrent redirects of one freshly created code, all sending the same  *)
(* headers, and the two reads of its counters.                             *)
(***************************************************************************)
FreshCode == "abc123"

\* the store after createShortUrl(FreshCode, UrlHttps) has completed
FreshStore(doc) == [c \in Codes |-> IF c = FreshCode THEN doc ELSE NoDoc]

\* the version of a document written once, or never
FirstVersion(d) == IF Exists(d) THEN 1 ELSE 0

\* no createShortUrl, trackClick, read or subscription is running
OthersIdle ==
    /\ creates = [k \in Creates |-> IdleCreate]
    /\ tracks = [k \in Tracks |-> IdleTrack]
    /\ reads = [k \in Reads |-> IdleRead]
    /\ sub = IdleSub

InitFresh ==
    /\ urls = FreshStore(NewUrlData(FreshCode, UrlHttps, ExpiryDays, 0))
    /\ analytics = FreshStore(NewAnalyticsData(FreshCode, 0))
    /\ ver = [urls |-> [c \in Codes |-> FirstVersion(urls[c])],
              analytics |-> [c \in Codes |-> FirstVersion(analytics[c])]]
    /\ now = 0
    /\ OthersIdle

InitClicks == InitFresh /\ req = [r \in ClickReqs |-> IdleReq]

NextClicks ==
    \/ \E r \in ClickReqs :
          GetLookup(r, FreshCode, UserAgentIn, RefererIn, ForwardedForIn)
    \/ \E r \in ClickReqs : GetLookupFail(r, FreshCode)
    \/ \E r \in ClickReqs : TxnGetUrl(r)
    \/ \E r \in ClickReqs : TxnGetAnalytics(r)
    \/ \E r \in ClickReqs : TxnCommit(r)
    \/ \E r \in ClickReqs : TxnRetry(r)
    \/ \E r \in ClickReqs : TxnFail(r)
    \/ \E k \in Reads : GetUrlData(k, FreshCode)
    \/ \E k \in Reads : GaRead(k, FreshCode)

SpecClicks == InitClicks /\ [][NextClicks]_vars

(***************************************************************************)
(* createShortUrl running beside the redirects of its code.                *)
(***************************************************************************)
NextRecord ==
    \/ \E r \in Reqs, c \in Codes :
          GetLookup(r, c, UserAgentIn, RefererIn, ForwardedForIn)
    \/ \E r \in Reqs, c \in Codes : GetLookupFail(r, c)
    \/ \E r \in Reqs : TxnGetUrl(r)
    \/ \E r \in Reqs : TxnGetAnalytics(r)
    \/ \E r \in Reqs : TxnCommit(r)
    \/ \E r \in Reqs : TxnRetry(r)
    \/ \E r \in Reqs : TxnFail(r)
    \/ \E k \in Creates, c \in NewCodes : CreateStart(k, c, UrlHttps)
    \/ \E k \in Creates : CreateSetUrl(k)
    \/ \E k \in Creates : CreateSetAnalytics(k)
    \/ \E k \in Creates : CreateSetUrlFail(k)
    \/ \E k \in Creates : CreateSetAnalyticsFail(k)

SpecRecord == Init /\ [][NextRecord]_vars

(***************************************************************************)
(* Redirects of a code whose documents are removed from the store by       *)
(* someone else while they run (the code itself deletes nothing): the      *)
(* case the existence check of the transaction is written for.             *)
(***************************************************************************)
\* the Mapping of c is deleted in the store
ExternalDeleteUrl(c) ==
    /\ Exists(urls[c])
    /\ urls' = [urls EXCEPT ![c] = NoDoc]
    /\ ver' = [ver EXCEPT !.urls[c] = @ + 1]
    /\ UNCHANGED <<analytics, now, req, creates, tracks, reads, sub>>

\* the Ledger of c is deleted in the store
ExternalDeleteAnalytics(c) ==
    /\ Exists(analytics[c])
    /\ analytics' = [analytics EXCEPT ![c] = NoDoc]
    /\ ver' = [ver EXCEPT !.analytics[c] = @ + 1]
    /\ UNCHANGED <<urls, now, req, creates, tracks, reads, sub>>

InitVanish == InitFresh /\ req = [r \in Reqs |-> IdleReq]

NextVanish ==
    \/ \E r \in Reqs, c \in Codes :
          GetLookup(r, c, UserAgentIn, RefererIn, ForwardedForIn)
    \/ \E r \in Reqs, c \in Codes : GetLookupFail(r, c)
    \/ \E r \in Reqs : TxnGetUrl(r)
    \/ \E r \in Reqs : TxnGetAnalytics(r)
    \/ \E r \in Reqs : TxnCommit(r)
    \/ \E r \in Reqs : TxnRetry(r)
    \/ \E r \in Reqs : TxnFail(r)
    \/ \E c \in Codes : ExternalDeleteUrl(c)
    \/ \E c \in Codes : ExternalDeleteAnalytics(c)

SpecVanish == InitVanish /\ [][NextVanish]_vars

(***************************************************************************)
(* Resolving a code whose Mapping is in any state the readers distinguish: *)
(* absent, inactive, expired, without expiry, with an empty or missing     *)
(* originalUrl, with or without a scheme.                                  *)
(***************************************************************************)
UrlNoScheme == <<"e", ".", "c", "/", "p">>
StoredUrls == {UrlHttps, UrlHttp, UrlNoScheme, EmptyStr, MissingStr}

\* expiresAt of a stored Mapping: not set, or a day of the clock
StoredExpiries == {NoTime} \cup (0..MaxNow)

StoredMappings ==
    {NoDoc} \cup
    {[NewUrlData(FreshCode, u, e, 0) EXCEPT !.isActive = a] :
        u \in StoredUrls, e \in StoredExpiries, a \in BOOLEAN}

StoredLedgers == {NoDoc, NewAnalyticsData(FreshCode, 0)}

InitResolve ==
    /\ urls \in {FreshStore(d) : d \in StoredMappings}
    /\ analytics \in {FreshStore(d) : d \in StoredLedgers}
    /\ ver = [urls |-> [c \in Codes |-> FirstVersion(urls[c])],
              analytics |-> [c \in Codes |-> FirstVersion(analytics[c])]]
    /\ now = 0
    /\ OthersIdle
    /\ req = [r \in Reqs |-> IdleReq]

NextResolve ==
    \/ \E r \in Reqs, c \in Codes :
          GetLookup(r, c, UserAgentIn, RefererIn, ForwardedForIn)
    \/ \E r \in Reqs, c \in Codes : GetLookupFail(r, c)
    \/ \E r \in Reqs : TxnGetUrl(r)
    \/ \E r \in Reqs : TxnGetAnalytics(r)
    \/ \E r \in Reqs : TxnCommit(r)
    \/ \E r \in Reqs : TxnRetry(r)
    \/ \E r \in Reqs : TxnFail(r)
    \/ \E k \in Reads, c \in Codes : GetUrlData(k, c)
    \/ \E k \in Reads, c \in Codes : GetUrlDataFail(k, c)
    \/ Tick

SpecResolve == InitResolve /\ [][NextResolve]_vars

(***************************************************************************)
(* An observer subscribing to the Ledger of a code while the tracker of    *)
(* the same client counts a click; the Ledger is absent, fresh, or one     *)
(* written before totalClicks was kept.                                    *)
(***************************************************************************)
LegacyLedger ==
    [NewAnalyticsData(FreshCode, 0) EXCEPT
        !.totalClicks = NoCount,
        !.clickEvents = <<ResolveEvent(
            TrackerClickEvent(FreshId("track", 0, 0), FreshId("tracker", 0, 0),
                              UserAgentIn, RefererIn, "direct"), 0)>>]

\* Mapping and Ledger of the code when the observer subscribes
SubStores ==
    {<<NoDoc, NoDoc>>,
     <<NewUrlData(FreshCode, UrlHttps, ExpiryDays, 0), NoDoc>>,
     <<NewUrlData(FreshCode, UrlHttps, ExpiryDays, 0), NewAnalyticsData(FreshCode, 0)>>,
     <<[NewUrlData(FreshCode, UrlHttps, ExpiryDays, 0) EXCEPT !.clicks = 1],
       LegacyLedger>>}

InitSub ==
    /\ \E st \in SubStores :
          /\ urls = FreshStore(st[1])
          /\ analytics = FreshStore(st[2])
    /\ ver = [urls |-> [c \in Codes |-> FirstVersion(urls[c])],
              analytics |-> [c \in Codes |-> FirstVersion(analytics[c])]]
    /\ now = 0
    /\ req = [r \in Reqs |-> IdleReq]
    /\ OthersIdle

NextSub ==
    \/ \E v \in SubVersions : Subscribe(v, FreshCode)
    \/ Unsubscribe
    \/ FetchInitialData
    \/ AnimationTimeout
    \/ OnSnapshot
    \/ \E i \in 1..Len(sub.fixes) : OnSnapshotFix(i)
    \/ \E i \in 1..Len(sub.fixes) : OnSnapshotFixFail(i)
    \/ OnError
    \/ TrackerOnSnapshot
    \/ TrackerServerConfirm
    \/ TrackerOnError
    \/ TrackerRetryTimer
    \/ TrackerResubSnapshot
    \/ TrackerResubError
    \/ \E k \in Tracks :
          TrackStart(k, FreshCode, UserAgentIn, RefererIn, "direct")
    \/ \E k \in Tracks : TrackUpdateUrl(k)
    \/ \E k \in Tracks : TrackUpdateAnalytics(k)
    \/ \E k \in Tracks : TrackUpdateUrlFail(k)
    \/ \E k \in Tracks : TrackUpdateAnalyticsFail(k)

SpecSub == InitSub /\ [][NextSub]_vars

(***************************************************************************)
(* The shorten POST followed by redirects of the code it returned.         *)
(***************************************************************************)
UrlUpper == <<"H", "T", "T", "P", ":", "/", "/", "e", ".", "c">>

\* bodies sent to the POST: accepted URLs, a URL without scheme, no URL
PostUrls == {UrlHttps, UrlHttp, UrlUpper, UrlNoScheme, EmptyStr}

NextShorten ==
    \/ \E k \in Creates, c \in NewCodes, url \in PostUrls : PostShorten(k, c, url)
    \/ \E k \in Creates : CreateSetUrl(k)
    \/ \E k \in Creates : CreateSetAnalytics(k)
    \/ \E k \in Creates : CreateSetUrlFail(k)
    \/ \E k \in Creates : CreateSetAnalyticsFail(k)
    \/ \E r \in Reqs, c \in Codes :
          GetLookup(r, c, UserAgentIn, RefererIn, ForwardedForIn)
    \/ \E r \in Reqs, c \in Codes : GetLookupFail(r, c)
    \/ \E r \in Reqs : TxnGetUrl(r)
    \/ \E r \in Reqs : TxnGetAnalytics(r)
    \/ \E r \in Reqs : TxnCommit(r)
    \/ \E r \in Reqs : TxnRetry(r)
    \/ \E r \in Reqs : TxnFail(r)

SpecShorten == Init /\ [][NextShorten]_vars

(***************************************************************************)
(* Redirects alone, of a code whose Mapping is in any of the stored        *)
(* states, under a moving clock.                                           *)
(***************************************************************************)
NextLookup ==
    \/ \E r \in Reqs :
          GetLookup(r, FreshCode, UserAgentIn, RefererIn, ForwardedForIn)
    \/ \E r \in Reqs : GetLookupFail(r, FreshCode)
    \/ \E r \in Reqs : TxnGetUrl(r)
    \/ \E r \in Reqs : TxnGetAnalytics(r)
    \/ \E r \in Reqs : TxnCommit(r)
    \/ \E r \in Reqs : TxnRetry(r)
    \/ \E r \in Reqs : TxnFail(r)
    \/ Tick

SpecLookup == InitResolve /\ [][NextLookup]_vars

(***************************************************************************)
(* The shorten POST drawing a code that is already in use: the store holds *)
(* the Mapping and the Ledger of an earlier createShortUrl, redirects      *)
(* count clicks on it.                                                     *)
(***************************************************************************)
SpecOverwrite == InitVanish /\ [][NextShorten]_vars

(***************************************************************************)
(* getAnalyticsData reading the Ledger of a code while the tracker counts  *)
(* a click on it; the Ledger is absent, fresh, or one written before       *)
(* totalClicks was kept.                                                   *)
(***************************************************************************)
NextHeal ==
    \/ \E k \in Reads : GaRead(k, FreshCode)
    \/ \E k \in Reads : GaReadUrl(k)
    \/ \E k \in Reads : GaSetDoc(k)
    \/ \E k \in Reads : GaRepair(k)
    \/ \E k \in Reads : GaFail(k)
    \/ \E k \in Tracks :
          TrackStart(k, FreshCode, UserAgentIn, RefererIn, "direct")
    \/ \E k \in Tracks : TrackUpdateUrl(k)
    \/ \E k \in Tracks : TrackUpdateAnalytics(k)
    \/ \E k \in Tracks : TrackUpdateUrlFail(k)
    \/ \E k \in Tracks : TrackUpdateAnalyticsFail(k)

SpecHeal == InitSub /\ [][NextHeal]_vars

(***************************************************************************)
(* Clicks recorded with headers of any length: short ones, ones longer     *)
(* than what a Click Event keeps, and none at all.                         *)
(***************************************************************************)
\* a header of n characters
LongHeader(n) == [i \in 1..n |-> "a"]

\* an x-forwarded-for whose first entry, between spaces, has 20 characters
ForwardedForLong ==
    <<" ">> \o [i \in 1..20 |-> IF i % 5 = 0 THEN ":" ELSE "f"] \o <<" ", ",", "9">>

\* the headers of a request: all three short, all three longer than what is
\* kept, or only the user-agent sent
HeaderSets ==
    {[userAgent |-> UserAgentIn, referer |-> RefererIn,
      forwardedFor |-> ForwardedForIn],
     [userAgent |-> LongHeader(MaxHeaderLen + 1),
      referer |-> LongHeader(MaxHeaderLen + 2),
      forwardedFor |-> ForwardedForLong],
     [userAgent |-> UserAgentIn, referer |-> NoHeader,
      forwardedFor |-> NoHeader]}

NextTruncate ==
    \/ \E r \in Reqs, h \in HeaderSets :
          GetLookup(r, FreshCode, h.userAgent, h.referer, h.forwardedFor)
    \/ \E r \in Reqs : GetLookupFail(r, FreshCode)
    \/ \E r \in Reqs : TxnGetUrl(r)
    \/ \E r \in Reqs : TxnGetAnalytics(r)
    \/ \E r \in Reqs : TxnCommit(r)
    \/ \E r \in Reqs : TxnRetry(r)
    \/ \E r \in Reqs : TxnFail(r)
    \/ \E k \in Tracks, h \in HeaderSets :
          TrackStart(k, FreshCode, h.userAgent, HeaderOrEmpty(h.referer), "direct")
    \/ \E k \in Tracks : TrackUpdateUrl(k)
    \/ \E k \in Tracks : TrackUpdateAnalytics(k)
    \/ \E k \in Tracks : TrackUpdateUrlFail(k)
    \/ \E k \in Tracks : TrackUpdateAnalyticsFail(k)

SpecTruncate == InitSub /\ [][NextTruncate]_vars

(***************************************************************************)
(* The readers that repair or create a Ledger, running beside the          *)
(* redirects that record clicks on it: getAnalyticsData, the snapshot      *)
(* handler of subscribeToAnalytics, fixExistingAnalytics.                  *)
(***************************************************************************)
NextRace ==
    \/ \E r \in Reqs :
          GetLookup(r, FreshCode, UserAgentIn, RefererIn, ForwardedForIn)
    \/ \E r \in Reqs : GetLookupFail(r, FreshCode)
    \/ \E r \in Reqs : TxnGetUrl(r)
    \/ \E r \in Reqs : TxnGetAnalytics(r)
    \/ \E r \in Reqs : TxnCommit(r)
    \/ \E r \in Reqs : TxnRetry(r)
    \/ \E r \in Reqs : TxnFail(r)
    \/ \E k \in Reads : GaRead(k, FreshCode)
    \/ \E k \in Reads : GaReadUrl(k)
    \/ \E k \in Reads : GaSetDoc(k)
    \/ \E k \in Reads : GaRepair(k)
    \/ \E k \in Reads : GaFail(k)
    \/ \E k \in Reads : FixGetDocs(k)
    \/ \E k \in Reads : FixGetDocsFail(k)
    \/ \E k \in Reads : FixReject(k)
    \/ Subscribe("analytics", FreshCode)
    \/ FetchInitialData
    \/ AnimationTimeout
    \/ OnSnapshot
    \/ \E i \in 1..Len(sub.fixes) : OnSnapshotFix(i)
    \/ \E i \in 1..Len(sub.fixes) : OnSnapshotFixFail(i)

SpecRace == InitSub /\ [][NextRace]_vars

(***************************************************************************)
(* The page that observes through its tracker, while the tracker counts a  *)
(* click.                                                                  *)
(***************************************************************************)
NextRealTime ==
    \/ RealTimeMount(FreshCode)
    \/ RealTimeOnSnapshot
    \/ RealTimeOnError
    \/ RealTimeEffectAgain
    \/ RealTimeUnmount
    \/ FetchInitialData
    \/ AnimationTimeout
    \/ \E k \in Tracks :
          TrackStart(k, FreshCode, UserAgentIn, RefererIn, "analytics_page")
    \/ \E k \in Tracks : TrackUpdateUrl(k)
    \/ \E k \in Tracks : TrackUpdateAnalytics(k)
    \/ \E k \in Tracks : TrackUpdateUrlFail(k)
    \/ \E k \in Tracks : TrackUpdateAnalyticsFail(k)

SpecRealTime == InitSub /\ [][NextRealTime]_vars

(***************************************************************************)
(* The subscription of lib/analytics.ts with no writer but its own repair: *)
(* the Ledger the observer finds has any stored count, or none, and up to  *)
(* MaxStoredEvents Click Events.                                           *)
(***************************************************************************)
\* the n Click Events of a Ledger written earlier
StoredEvents(n) ==
    [i \in 1..n |->
       ResolveEvent(TrackerClickEvent(FreshId("track", 0, i),
                                      FreshId("tracker", 0, 0),
                                      UserAgentIn, RefererIn, "direct"), 0)]

\* the Ledgers an observer may find
FoundLedgers ==
    {NoDoc} \cup
    {[NewAnalyticsData(FreshCode, 0) EXCEPT !.totalClicks = t,
                                            !.clickEvents = StoredEvents(n)] :
        t \in {NoCount} \cup 0..MaxStoredEvents, n \in 0..MaxStoredEvents}

\* the Mappings an observer may find
FoundMappings ==
    {NoDoc} \cup
    {[NewUrlData(FreshCode, UrlHttps, ExpiryDays, 0) EXCEPT !.clicks = n] :
        n \in 0..MaxStoredEvents}

InitFix ==
    /\ \E u \in FoundMappings, a \in FoundLedgers :
          /\ urls = FreshStore(u)
          /\ analytics = FreshStore(a)
    /\ ver = [urls |-> [c \in Codes |-> FirstVersion(urls[c])],
              analytics |-> [c \in Codes |-> FirstVersion(analytics[c])]]
    /\ now = 0
    /\ req = [r \in Reqs |-> IdleReq]
    /\ OthersIdle

NextFix ==
    \/ Subscribe("analytics", FreshCode)
    \/ Unsubscribe
    \/ FetchInitialData
    \/ AnimationTimeout
    \/ OnSnapshot
    \/ \E i \in 1..Len(sub.fixes) : OnSnapshotFix(i)
    \/ \E i \in 1..Len(sub.fixes) : OnSnapshotFixFail(i)
    \/ OnError

SpecFix == InitFix /\ [][NextFix]_vars

(***************************************************************************)
(* The subscription of lib/real-time-tracker.ts while this client's        *)
(* trackClick writes.  The store answers every write, with success or with *)
(* an error, and a registered serverConfirmListener is handed the snapshot *)
(* of the Ledger once no write of the client is pending.                   *)
(***************************************************************************)
NextConfirm ==
    \/ Subscribe("tracker", FreshCode)
    \/ Unsubscribe
    \/ FetchInitialData
    \/ AnimationTimeout
    \/ TrackerOnSnapshot
    \/ TrackerServerConfirm
    \/ TrackerOnError
    \/ TrackerRetryTimer
    \/ TrackerResubSnapshot
    \/ TrackerResubError
    \/ \E k \in Tracks :
          TrackStart(k, FreshCode, UserAgentIn, RefererIn, "direct")
    \/ \E k \in Tracks : TrackUpdateUrl(k)
    \/ \E k \in Tracks : TrackUpdateAnalytics(k)
    \/ \E k \in Tracks : TrackUpdateUrlFail(k)
    \/ \E k \in Tracks : TrackUpdateAnalyticsFail(k)

\* the store settles the pending update of the Ledger
AnalyticsWriteSettles ==
    \E k \in Tracks : TrackUpdateAnalytics(k) \/ TrackUpdateAnalyticsFail(k)

SpecConfirm ==
    /\ InitSub
    /\ [][NextConfirm]_vars
    /\ WF_vars(AnalyticsWriteSettles)
    /\ WF_vars(TrackerServerConfirm)

(***************************************************************************)
(* What the requests have done so far.                                     *)
(***************************************************************************)
\* requests that called recordClickWithProperAnalytics
Invoked == {r \in DOMAIN req : req[r].rc # "none"}

\* requests whose transaction committed
Committed == {r \in DOMAIN req : req[r].rc = "committed"}

\* no call of recordClickWithProperAnalytics is running
NoClickPending == \A r \in DOMAIN req : req[r].rc # "pending"

\* no call failed in the store
NoClickFailed == \A r \in DOMAIN req : req[r].rc # "failed"

(***************************************************************************)
(* C1.  N concurrent recordClick calls on one freshly created code lose no *)
(* increment: under every interleaving of their transactions Mapping.clicks*)
(* = Ledger.totalClicks = number of Click Events = number of calls whose   *)
(* transaction committed, and once all N calls have completed, none of     *)
(* them rejected by the store, that number is N.                           *)
(***************************************************************************)
C1_NoLostIncrement ==
    LET n == Cardinality(Committed)
    IN /\ urls[FreshCode].clicks = n
       /\ analytics[FreshCode].totalClicks = n
       /\ Len(analytics[FreshCode].clickEvents) = n
       /\ (NoClickPending /\ NoClickFailed) => n = Cardinality(Invoked)

\* all N = NumClickReqs calls have committed, and one of them had to run its
\* update function again because another committed in between
C1_Witness ==
    /\ \A r \in DOMAIN req : req[r].rc = "committed"
    /\ \E r \in DOMAIN req : req[r].attempt >= 1
    /\ urls[FreshCode].clicks = NumClickReqs

(***************************************************************************)
(* C7.  recordClick is not idempotent: every call that commits, also one   *)
(* that repeats the shortCode, userAgent, referer and ip of an earlier     *)
(* call, adds one Click Event and advances both counters by one; and once  *)
(* k calls have committed and none is running, getAnalyticsData reports    *)
(* totalClicks = k with k events and getUrlData reports clicks = k.        *)
(***************************************************************************)
C7_EveryCallCounts ==
    /\ [][\A r \in DOMAIN req :
            (req[r].rc = "pending" /\ req'[r].rc = "committed") =>
              /\ \A o \in Committed :
                   /\ req[o].shortCode = req[r].shortCode
                   /\ req[o].userAgent = req[r].userAgent
                   /\ req[o].referer = req[r].referer
                   /\ req[o].ip = req[r].ip
              /\ Len(analytics'[FreshCode].clickEvents)
                   = Len(analytics[FreshCode].clickEvents) + 1
              /\ analytics'[FreshCode].totalClicks
                   = analytics[FreshCode].totalClicks + 1
              /\ urls'[FreshCode].clicks = urls[FreshCode].clicks + 1]_vars
    /\ [][\A k \in DOMAIN reads :
            (reads[k].pc = "idle" /\ reads'[k].pc = "done" /\ NoClickPending) =>
              LET n == Cardinality(Committed)
                  res == reads'[k].result
              IN IF reads'[k].op = "getAnalyticsData"
                 THEN res.totalClicks = n /\ Len(res.clickEvents) = n
                 ELSE res.clicks = n]_vars

\* three calls with the same inputs have committed (the scenario of the
\* specification) and getAnalyticsData has reported totalClicks = 3
C7_Witness ==
    /\ Cardinality(Committed) = 3
    /\ \E k \in DOMAIN reads :
          /\ reads[k].op = "getAnalyticsData"
          /\ reads[k].pc = "done"
          /\ reads[k].result.totalClicks = 3
          /\ Len(reads[k].result.clickEvents) = 3

(***************************************************************************)
(* Reading the counters of a document that may not exist.                  *)
(***************************************************************************)
ClicksOf(d) == IF Exists(d) THEN OrZero(d.clicks) ELSE 0
TotalClicksOf(d) == IF Exists(d) THEN OrZero(d.totalClicks) ELSE 0
EventsOf(d) == IF Exists(d) THEN d.clickEvents ELSE <<>>

\* a step of a redirect GET (no other operation changes req)
RedirectStep == req' # req

\* the step records one click on c: both counters advance by exactly one and
\* exactly one Click Event is appended
RecordsOneClick(c) ==
    /\ Exists(urls[c]) /\ Exists(urls'[c]) /\ Exists(analytics'[c])
    /\ urls'[c].clicks = ClicksOf(urls[c]) + 1
    /\ analytics'[c].totalClicks = TotalClicksOf(analytics[c]) + 1
    /\ Len(analytics'[c].clickEvents) = Len(EventsOf(analytics[c])) + 1
    /\ SubSeq(analytics'[c].clickEvents, 1, Len(EventsOf(analytics[c])))
         = EventsOf(analytics[c])

\* the step leaves both documents of c as they are
StoreUnchanged(c) == urls'[c] = urls[c] /\ analytics'[c] = analytics[c]

(***************************************************************************)
(* C2.  recordClick is atomic across the two documents: every step of a    *)
(* redirect, and so every state a call of recordClick ends in, either      *)
(* advances Mapping.clicks and Ledger.totalClicks by exactly one and       *)
(* appends exactly one Click Event, or changes none of the three.          *)
(***************************************************************************)
C2_RecordClickAtomic ==
    [][RedirectStep => \A c \in Codes : RecordsOneClick(c) \/ StoreUnchanged(c)]_vars

\* one call has committed while another one, against the same code, has ended
\* with an error of the store
C2_Witness ==
    \E r1, r2 \in DOMAIN req :
       /\ req[r1].rc = "committed"
       /\ req[r2].rc = "failed"
       /\ req[r1].shortCode = req[r2].shortCode
       /\ urls[req[r1].shortCode].clicks >= 1

(***************************************************************************)
(* C3.  For every short code, whenever no write operation on it is in      *)
(* flight, Mapping.clicks equals Ledger.totalClicks.                       *)
(***************************************************************************)
\* no operation that writes to c is between its first and its last step
NoWriteInFlight(c) ==
    /\ \A r \in DOMAIN req : req[r].shortCode = c => req[r].pc \in {"idle", "done"}
    /\ \A k \in DOMAIN creates :
          creates[k].shortCode = c => creates[k].pc \in {"idle", "done"}
    /\ \A k \in DOMAIN tracks :
          tracks[k].shortCode = c => tracks[k].pc \in {"idle", "done"}
    /\ \A k \in DOMAIN reads :
          reads[k].shortCode = c => reads[k].pc \in {"idle", "done"}

C3_CountersAgree ==
    \A c \in Codes :
       (NoWriteInFlight(c) /\ Exists(urls[c]) /\ Exists(analytics[c])) =>
          urls[c].clicks = analytics[c].totalClicks

(***************************************************************************)
(* C5.  When the click of a redirect commits for a Mapping whose Ledger    *)
(* does not exist, the same step creates the Ledger with totalClicks = 1   *)
(* and the new Click Event as its only entry: no step of a redirect        *)
(* advances Mapping.clicks and leaves the Ledger absent.                   *)
(***************************************************************************)
C5_LedgerCreatedWithFirstClick ==
    [][RedirectStep =>
         \A c \in Codes :
            (~Exists(analytics[c]) /\ urls'[c] # urls[c]) =>
               /\ Exists(analytics'[c])
               /\ analytics'[c].totalClicks = 1
               /\ Len(analytics'[c].clickEvents) = 1
               /\ urls'[c].clicks = ClicksOf(urls[c]) + 1
               /\ \E r \in DOMAIN req :
                     /\ req[r].pc = "txnCommit" /\ req'[r].rc = "committed"
                     /\ analytics'[c].clickEvents[1]
                          = ResolveEvent(req[r].event, now)]_vars

\* a call has committed through the branch that creates the Ledger, which
\* holds its one event
C5_Witness ==
    \E r \in DOMAIN req :
       /\ req[r].rc = "committed"
       /\ req[r].branch = "set"
       /\ Exists(analytics[req[r].shortCode])
       /\ analytics[req[r].shortCode].totalClicks = 1
       /\ Len(analytics[req[r].shortCode].clickEvents) = 1

(***************************************************************************)
(* C4.  recordClick for a short code that has no Mapping fails with an     *)
(* error and writes nothing: a transaction that read no Mapping ends in    *)
(* the catch block, and no step of a redirect creates or modifies the      *)
(* Ledger of a code while that code has no Mapping.                        *)
(***************************************************************************)
C4_NoMappingNoWrite ==
    /\ [][\A r \in DOMAIN req :
            (/\ req[r].pc = "txnGetAnalytics"
             /\ ~Exists(req[r].txUrl.doc)
             /\ req'[r] # req[r]) =>
               /\ req'[r].pc = "done"
               /\ req'[r].rc \in {"threw", "failed"}
               /\ urls' = urls
               /\ analytics' = analytics]_vars
    /\ [][RedirectStep =>
            \A c \in Codes : ~Exists(urls[c]) => StoreUnchanged(c)]_vars

\* a call found no Mapping and threw; its code has no Ledger either, so none
\* was created
C4_Witness ==
    \E r \in DOMAIN req :
       /\ req[r].rc = "threw"
       /\ ~Exists(urls[req[r].shortCode])
       /\ ~Exists(analytics[req[r].shortCode])

(***************************************************************************)
(* C6.  A failure of recordClick never changes the redirect outcome: every *)
(* redirect GET that passed the lookup and the validations answers the     *)
(* success body {redirectUrl}, whether its transaction committed, threw    *)
(* because the Mapping was gone, or failed in the store; the catch block   *)
(* of GET is not reached.                                                  *)
(***************************************************************************)
C6_RedirectSurvivesRecordFailure ==
    \A r \in DOMAIN req :
       (req[r].pc = "done" /\ req[r].rc # "none") =>
          /\ req[r].rc \in {"committed", "threw", "failed"}
          /\ req[r].status = 200
          /\ req[r].error = ""
          /\ req[r].body = req[r].redirectUrl
          /\ req[r].body # EmptyStr

\* one redirect answered after its transaction threw on the missing Mapping,
\* another after its transaction failed in the store
C6_Witness ==
    \E r1, r2 \in DOMAIN req :
       /\ req[r1].rc = "threw" /\ req[r1].status = 200
       /\ req[r2].rc = "failed" /\ req[r2].status = 200

(***************************************************************************)
(* C9.  A Mapping is treated as not found exactly when it is absent, or    *)
(* isActive is false, or expiresAt is in the past, for every combination   *)
(* of the two flags: the redirect GET that read it answers 404 with no     *)
(* redirectUrl, and getUrlData that read it returns null, in exactly these *)
(* cases.                                                                  *)
(***************************************************************************)
\* absent, inactive, or expired at time t
NotFoundAt(d, t) ==
    \/ ~Exists(d)
    \/ d.isActive = FALSE
    \/ (d.expiresAt # NoTime /\ d.expiresAt < t)

C9_NotFoundExactly ==
    /\ [][\A r \in DOMAIN req :
            (/\ req[r].pc = "idle"
             /\ req'[r].pc # "idle"
             /\ req'[r].error # "Internal server error") =>
               LET d == urls[req'[r].shortCode]
               IN /\ (req'[r].status = 404) <=> NotFoundAt(d, now)
                  /\ req'[r].status = 404 =>
                        /\ req'[r].pc = "done"
                        /\ req'[r].body = EmptyStr
                        /\ req'[r].redirectUrl = EmptyStr]_vars
    /\ [][\A k \in DOMAIN reads :
            (/\ reads[k].pc = "idle"
             /\ reads'[k].op = "getUrlData"
             /\ reads'[k].readOk) =>
               LET d == urls[reads'[k].shortCode]
               IN /\ (reads'[k].result = NoDoc) <=> NotFoundAt(d, now)
                  /\ reads'[k].result # NoDoc => reads'[k].result = d]_vars

\* a Mapping that is active but expired: the redirect answered 404 and
\* getUrlData returned null
C9_Witness ==
    /\ Exists(urls[FreshCode])
    /\ urls[FreshCode].isActive
    /\ urls[FreshCode].expiresAt # NoTime
    /\ urls[FreshCode].expiresAt < now
    /\ \E r \in DOMAIN req :
          /\ req[r].shortCode = FreshCode
          /\ req[r].status = 404
    /\ \E k \in DOMAIN reads :
          /\ reads[k].op = "getUrlData"
          /\ reads[k].shortCode = FreshCode
          /\ reads[k].readOk
          /\ reads[k].result = NoDoc

(***************************************************************************)
(* C10.  A redirect GET records a click only when it answers the success   *)
(* body: the step in which a request answers 404 or 500 changes neither    *)
(* collection, that request never started recordClick, and every request   *)
(* whose click committed answered {redirectUrl}.                           *)
(***************************************************************************)
C10_OnlySuccessRecords ==
    /\ [][\A r \in DOMAIN req :
            (req'[r] # req[r] /\ req'[r].pc = "done" /\ req'[r].status # 200) =>
               /\ req'[r].status \in {404, 500}
               /\ urls' = urls
               /\ analytics' = analytics
               /\ req[r].rc = "none"
               /\ req'[r].rc = "none"]_vars
    /\ [](\A r \in DOMAIN req :
            req[r].rc = "committed" =>
               /\ req[r].status = 200
               /\ req[r].body = req[r].redirectUrl)

\* one request answered 404 and another 500 'Invalid URL data'; the code has
\* no Ledger, so none was created
C10_Witness ==
    \E r1, r2 \in DOMAIN req :
       /\ req[r1].status = 404
       /\ req[r2].status = 500 /\ req[r2].error = "Invalid URL data"
       /\ ~Exists(analytics[req[r1].shortCode])
       /\ ~Exists(analytics[req[r2].shortCode])
       /\ urls[req[r2].shortCode].clicks = 0

(***************************************************************************)
(* C8.  After the unsubscribe function returned by subscribeToAnalytics    *)
(* has been called, the observer's callback is never invoked again: not by *)
(* a Ledger change, a transport error, a snapshot handler already awaiting *)
(* a repair or a document creation, a pending retry timer, or a nested     *)
(* server-confirmation listener.                                           *)
(***************************************************************************)
C8_NoCallbackAfterUnsubscribe == ~sub.late

(***************************************************************************)
(* C11.  For every URL the shorten POST accepted, a redirect GET of the    *)
(* returned code, served before expiry and with no other shorten call on   *)
(* that code, resolves to the scheme-normalized form of the submitted URL: *)
(* the URL itself, since an accepted URL has a scheme.                     *)
(***************************************************************************)
\* the URL with a scheme: itself when it has one, https:// put before it
\* otherwise
SchemeNormalized(u) == IF IsValidUrl(u) THEN u ELSE HttpsPrefix \o u

\* the one POST that answered 200 with code c, no other POST having drawn c
ShortenedBy(c) ==
    {k \in DOMAIN creates :
        /\ PostStatus(creates[k]) = 200
        /\ creates[k].shortCode = c
        /\ \A j \in DOMAIN creates : j # k => creates[j].shortCode # c}

C11_ShortenThenRedirect ==
    [][\A r \in DOMAIN req :
         (/\ req[r].pc = "idle"
          /\ req'[r].pc # "idle"
          /\ req'[r].error # "Internal server error") =>
            \A k \in ShortenedBy(req'[r].shortCode) :
               now < creates[k].expiresAt =>
                  /\ req'[r].status \in {0, 200}
                  /\ req'[r].redirectUrl
                       = SchemeNormalized(creates[k].originalUrl)]_vars

(***************************************************************************)
(* C12.  The redirect GET normalizes the stored originalUrl before it      *)
(* returns it: a value that starts with neither http:// nor https:// is    *)
(* returned with https:// put before it and is otherwise unchanged, a      *)
(* value that starts with one of the two is returned as stored; the stored *)
(* Mapping is not modified.                                                *)
(***************************************************************************)
C12_NormalizedNotStored ==
    /\ [][\A r \in DOMAIN req :
            (req[r].pc = "idle" /\ req'[r].pc = "txnGetUrl") =>
               LET stored == urls[req'[r].shortCode].originalUrl
                   out == req'[r].redirectUrl
               IN /\ (StartsWith(stored, HttpPrefix) \/ StartsWith(stored, HttpsPrefix))
                        => out = stored
                  /\ ~(StartsWith(stored, HttpPrefix) \/ StartsWith(stored, HttpsPrefix))
                        => /\ Len(out) = Len(stored) + 8
                           /\ SubSeq(out, 1, 8) = <<"h", "t", "t", "p", "s", ":", "/", "/">>
                           /\ SubSeq(out, 9, Len(out)) = stored
                  /\ urls' = urls]_vars
    /\ [][\A r \in DOMAIN req :
            (req[r].pc # "done" /\ req'[r].pc = "done" /\ req'[r].status = 200) =>
               /\ req'[r].body = req[r].redirectUrl
               /\ urls'[req[r].shortCode].originalUrl
                    = urls[req[r].shortCode].originalUrl]_vars

\* a Mapping stored without scheme was answered with https:// before it, and
\* is still stored without it
C12_Witness ==
    \E r \in DOMAIN req :
       /\ req[r].status = 200
       /\ urls[req[r].shortCode].originalUrl = UrlNoScheme
       /\ req[r].body = HttpsPrefix \o UrlNoScheme

(***************************************************************************)
(* C13.  A redirect GET that finds an existing, active, unexpired Mapping  *)
(* whose originalUrl is empty or missing answers 500 'Invalid URL data'    *)
(* with no redirectUrl, and does so before any click is recorded.          *)
(***************************************************************************)
C13_InvalidUrlData ==
    [][\A r \in DOMAIN req :
         (/\ req[r].pc = "idle"
          /\ req'[r].pc # "idle"
          /\ req'[r].error # "Internal server error") =>
            LET d == urls[req'[r].shortCode]
            IN (/\ Exists(d)
                /\ d.isActive
                /\ ~(d.expiresAt # NoTime /\ d.expiresAt < now)
                /\ d.originalUrl \in {EmptyStr, MissingStr}) =>
                  /\ req'[r].pc = "done"
                  /\ req'[r].status = 500
                  /\ req'[r].error = "Invalid URL data"
                  /\ req'[r].body = EmptyStr
                  /\ req'[r].redirectUrl = EmptyStr
                  /\ req'[r].rc = "none"
                  /\ urls' = urls
                  /\ analytics' = analytics]_vars

\* a Mapping with an empty originalUrl, active and not expired, was answered
\* with 500 and has no click
C13_Witness ==
    \E r \in DOMAIN req :
       /\ req[r].error = "Invalid URL data"
       /\ req[r].status = 500
       /\ urls[req[r].shortCode].originalUrl = EmptyStr
       /\ urls[req[r].shortCode].isActive
       /\ urls[req[r].shortCode].clicks = 0

(***************************************************************************)
(* C14.  createShortUrl creates the Mapping and the Ledger atomically: in  *)
(* every reachable state, also while the call is in progress and after one *)
(* of its two writes failed, either both documents of the code exist or    *)
(* neither does.                                                           *)
(***************************************************************************)
C14_CreatedTogether ==
    \A c \in Codes : Exists(urls[c]) <=> Exists(analytics[c])

(***************************************************************************)
(* C15.  clickEvents is append-only: no step of any operation removes or   *)
(* changes a stored Click Event, and only the click-recording paths (the   *)
(* redirect's transaction, trackClick) add one.                            *)
(***************************************************************************)
C15_EventsAppendOnly ==
    [][\A c \in Codes :
         LET old == EventsOf(analytics[c])
             new == EventsOf(analytics'[c])
         IN /\ Len(new) >= Len(old)
            /\ SubSeq(new, 1, Len(old)) = old
            /\ new # old => (req' # req \/ tracks' # tracks)]_vars

(***************************************************************************)
(* C16.  Mapping.clicks never decreases: for every short code and every    *)
(* step, clicks after the step is at least clicks before it.               *)
(***************************************************************************)
C16_ClicksMonotone ==
    [][\A c \in Codes : ClicksOf(urls'[c]) >= ClicksOf(urls[c])]_vars

(***************************************************************************)
(* C17.  The redirect GET invokes recordClick as a non-blocking side       *)
(* effect: it does not wait for the transaction, so the step in which it   *)
(* calls recordClickWithProperAnalytics is the step in which it answers    *)
(* {redirectUrl}, and a transaction that never completes does not hold the *)
(* response back.                                                          *)
(***************************************************************************)
C17_RecordClickNonBlocking ==
    [][\A r \in DOMAIN req :
         (req[r].rc = "none" /\ req'[r].rc # "none") =>
            /\ req'[r].status = 200
            /\ req'[r].body = req'[r].redirectUrl]_vars

(***************************************************************************)
(* C18.  On a transport error of the analytics subscription the observer   *)
(* is told (callback(null)) and the subscription is set up again once,     *)
(* after the fixed delay: the step that reports the error arms the retry   *)
(* timer, a new listener is registered only by that timer, which it uses   *)
(* up, and the observer never has two live subscriptions.                  *)
(***************************************************************************)
C18_ErrorThenOneRetry ==
    /\ [][(sub.pc = "listening" /\ sub'.pc = "errored") =>
            /\ sub'.called
            /\ sub'.last = NoDoc
            /\ sub'.timer]_vars
    /\ [][(~sub.resub /\ sub'.resub) => (sub.timer /\ ~sub'.timer)]_vars
    /\ [](~(sub.pc = "listening" /\ sub.resub))

(***************************************************************************)
(* C19.  getAnalyticsData self-heals: whenever the stored totalClicks is   *)
(* absent or differs from the number of stored Click Events, the read      *)
(* sets it to that number, so every Ledger it returns has totalClicks =    *)
(* clickEvents.length, and so has the stored Ledger when it returns.       *)
(***************************************************************************)
C19_ReadSelfHeals ==
    [][\A k \in DOMAIN reads :
         (/\ reads[k].pc # "done"
          /\ reads'[k].pc = "done"
          /\ reads'[k].op = "getAnalyticsData"
          /\ reads'[k].result # NoDoc) =>
            LET res == reads'[k].result
                d == analytics'[reads'[k].shortCode]
            IN /\ res.totalClicks = Len(res.clickEvents)
               /\ Exists(d)
               /\ d.totalClicks = Len(d.clickEvents)]_vars

(***************************************************************************)
(* C20.  The not-found answer of the redirect does not tell why: a GET of  *)
(* a code that is absent, one of a code that is inactive and one of a code *)
(* that is expired get the same response, status and message.              *)
(***************************************************************************)
C20_NotFoundIndistinguishable ==
    \A r1, r2 \in DOMAIN req :
       (req[r1].status = 404 /\ req[r2].status = 404) =>
          /\ req[r1].error = req[r2].error
          /\ req[r1].body = req[r2].body

(***************************************************************************)
(* C21.  The shorten POST makes no uniqueness check: when the code it drew *)
(* already has a Mapping, the call goes on to its two writes as for a new  *)
(* code and answers 200 when the store applies both; the write of the      *)
(* Mapping replaces the existing one (the new originalUrl, clicks 0) and   *)
(* the write of the Ledger replaces the existing one (totalClicks 0, no    *)
(* Click Event).                                                           *)
(***************************************************************************)
C21_CollisionOverwrites ==
    /\ [][\A k \in DOMAIN creates :
            (/\ creates[k].pc = "idle"
             /\ creates'[k].pc # "idle"
             /\ ~PostRejects(creates'[k].originalUrl)) =>
               /\ creates'[k].pc = "writing"
               /\ creates'[k].urlWrite = "pending"
               /\ creates'[k].anaWrite = "pending"]_vars
    /\ [][\A k \in DOMAIN creates :
            (creates[k].urlWrite = "pending" /\ creates'[k].urlWrite = "ok") =>
               LET c == creates[k].shortCode
               IN /\ Exists(urls'[c])
                  /\ urls'[c].originalUrl = creates[k].originalUrl
                  /\ urls'[c].clicks = 0]_vars
    /\ [][\A k \in DOMAIN creates :
            (creates[k].anaWrite = "pending" /\ creates'[k].anaWrite = "ok") =>
               LET c == creates[k].shortCode
               IN /\ Exists(analytics'[c])
                  /\ analytics'[c].totalClicks = 0
                  /\ analytics'[c].clickEvents = <<>>]_vars
    /\ [](\A k \in DOMAIN creates :
            (/\ creates[k].pc = "done"
             /\ creates[k].urlWrite = "ok"
             /\ creates[k].anaWrite = "ok") => PostStatus(creates[k]) = 200)

\* a click was counted on the code, then a POST drew the same code for
\* another URL and answered 200: the Mapping holds the new URL with clicks 0,
\* the Ledger is empty
C21_Witness ==
    \E k \in DOMAIN creates, r \in DOMAIN req :
       /\ req[r].rc = "committed"
       /\ req[r].shortCode = creates[k].shortCode
       /\ req[r].redirectUrl = UrlHttps
       /\ PostStatus(creates[k]) = 200
       /\ creates[k].originalUrl = UrlHttp
       /\ urls[creates[k].shortCode].originalUrl = UrlHttp
       /\ urls[creates[k].shortCode].clicks = 0
       /\ analytics[creates[k].shortCode].totalClicks = 0
       /\ analytics[creates[k].shortCode].clickEvents = <<>>

(***************************************************************************)
(* C22.  Every Click Event stored in a Ledger, by the redirect or by       *)
(* trackClick, has a userAgent of at most 200 characters, a referer of at  *)
(* most 200 characters and an ip of at most 15 characters, each a prefix   *)
(* of the value its request supplied; for the redirect the value supplied  *)
(* for ip is the trimmed first entry of the x-forwarded-for header.        *)
(***************************************************************************)
IsPrefix(p, s) == Len(p) <= Len(s) /\ SubSeq(s, 1, Len(p)) = p

\* what the writer of event e was given: the headers of the redirect request,
\* or the browser's values and the tracker's own ip
SuppliedTo(e) ==
    IF e.id[1] = "event"
    THEN LET h == req[e.id[2]].headers
         IN [userAgent |-> HeaderOrEmpty(h.userAgent),
             referer |-> HeaderOrEmpty(h.referer),
             ip |-> Trim(FirstEntry(HeaderOrEmpty(h.forwardedFor)))]
    ELSE IF e.id[2] \in DOMAIN tracks
    THEN [userAgent |-> tracks[e.id[2]].userAgent,
          referer |-> tracks[e.id[2]].referer,
          ip |-> ClientIpPlaceholder]
    ELSE [userAgent |-> e.userAgent, referer |-> e.referer, ip |-> e.ip]

C22_EventsTruncated ==
    \A c \in Codes :
       \A i \in 1..Len(EventsOf(analytics[c])) :
          LET e == analytics[c].clickEvents[i]
              given == SuppliedTo(e)
          IN /\ Len(e.userAgent) <= 200
             /\ Len(e.referer) <= 200
             /\ Len(e.ip) <= 15
             /\ IsPrefix(e.userAgent, given.userAgent)
             /\ IsPrefix(e.referer, given.referer)
             /\ IsPrefix(e.ip, given.ip)

\* the Ledger holds an event of a redirect whose three headers were longer
\* than what is kept, cut to 200, 200 and 15 characters, and an event of the
\* tracker cut to 200 characters
C22_Witness ==
    \E i, j \in 1..Len(EventsOf(analytics[FreshCode])) :
       LET e == analytics[FreshCode].clickEvents[i]
           t == analytics[FreshCode].clickEvents[j]
       IN /\ e.id[1] = "event"
          /\ Len(SuppliedTo(e).userAgent) > 200 /\ Len(e.userAgent) = 200
          /\ Len(SuppliedTo(e).referer) > 200 /\ Len(e.referer) = 200
          /\ Len(SuppliedTo(e).ip) > 15 /\ Len(e.ip) = 15
          /\ t.id[1] = "track" /\ t.id[2] \in DOMAIN tracks
          /\ Len(SuppliedTo(t).userAgent) > 200 /\ Len(t.userAgent) = 200

(***************************************************************************)
(* C23.  The repair of totalClicks races with the recording of clicks: the *)
(* number a repair writes is the number of events of the Ledger as it was  *)
(* read before the repair transaction, by getAnalyticsData or by the       *)
(* snapshot handler of subscribeToAnalytics, and it is written over        *)
(* whatever recordClick has stored since, the events being left alone; so  *)
(* a state is reached where totalClicks is smaller than the number of      *)
(* Click Events and differs from Mapping.clicks.                           *)
(***************************************************************************)
C23_RepairWritesStaleCount ==
    /\ [][\A k \in DOMAIN reads :
            (/\ reads[k].pc = "repair"
             /\ reads'[k].pc = "done"
             /\ reads'[k].readOk) =>
               LET c == reads[k].shortCode
               IN /\ analytics'[c] =
                       [analytics[c] EXCEPT !.totalClicks = reads[k].clickCount]
                  /\ reads'[k].result.totalClicks = reads[k].clickCount]_vars
    /\ [][(Len(sub'.fixes) < Len(sub.fixes) /\ analytics' # analytics) =>
            \E i \in 1..Len(sub.fixes) :
               analytics'[sub.shortCode] =
                  [analytics[sub.shortCode] EXCEPT
                      !.totalClicks = Len(sub.fixes[i].data.clickEvents)]]_vars

\* the count was read as 1, two clicks were recorded (totalClicks 2, three
\* events), then the repair wrote the 1: totalClicks is smaller than the
\* number of events and differs from Mapping.clicks
C23_Witness ==
    /\ Cardinality(Committed) = 2
    /\ \/ \E k \in DOMAIN reads :
             /\ reads[k].op = "getAnalyticsData"
             /\ reads[k].pc = "done"
             /\ reads[k].clickCount = 1
       \/ sub.called /\ Exists(sub.last) /\ Len(sub.last.clickEvents) = 1
    /\ analytics[FreshCode].totalClicks = 1
    /\ Len(analytics[FreshCode].clickEvents) = 3
    /\ urls[FreshCode].clicks = 3
    /\ analytics[FreshCode].totalClicks < Len(analytics[FreshCode].clickEvents)
    /\ analytics[FreshCode].totalClicks # urls[FreshCode].clicks

(***************************************************************************)
(* C24.  When the observer is cancelled (the page is left: unsubscribe,    *)
(* destroy), every listener and every timer created on its behalf is       *)
(* released: from then on no snapshot listener of it is active, the        *)
(* tracker's listeners list is empty, and no timeout or interval is        *)
(* pending.                                                                *)
(***************************************************************************)
C24_CancelReleasesAll ==
    sub.unsubscribed =>
       /\ sub.pc # "listening"
       /\ ~sub.resub
       /\ sub.confirm = 0
       /\ ~sub.timer
       /\ sub.page.listeners = 0
       /\ sub.page.timeouts = 0
       /\ ~sub.page.interval

(***************************************************************************)
(* C25: in the subscription of lib/real-time-tracker.ts, a callback that   *)
(* carried a snapshot with a pending write is followed by a callback that  *)
(* carries the Ledger as the store holds it, with no write pending; the    *)
(* serverConfirmListener that delivers it unsubscribes itself with that    *)
(* delivery, and the number of live confirmation listeners returns to 0.   *)
(***************************************************************************)
\* a confirmation listener has delivered the Ledger of the store
ServerConfirmed ==
    /\ sub.called
    /\ sub.last = analytics[sub.shortCode]
    /\ ~PendingWrites(sub.shortCode)

C25_ConfirmationFollows ==
    /\ [][sub'.confirm < sub.confirm =>
             /\ sub'.confirm = sub.confirm - 1
             /\ ~PendingWrites(sub.shortCode)
             /\ sub'.called
             /\ sub'.last = analytics[sub.shortCode]]_vars
    /\ [][sub'.confirm > sub.confirm =>
             /\ sub'.confirm = sub.confirm + 1
             /\ PendingWrites(sub.shortCode)
             /\ sub'.last = LocalView(sub.shortCode)]_vars
    /\ (sub.confirm > 0) ~> (sub.confirm = 0 /\ ServerConfirmed)

\* the outer listener last saw the speculative snapshot, the write was
\* acknowledged, and the confirmation listener has delivered and left
C25_Witness ==
    /\ sub.version = "tracker"
    /\ sub.seen # NoSeen
    /\ sub.seen[2]
    /\ sub.confirm = 0
    /\ ServerConfirmed
    /\ \E k \in Tracks : tracks[k].anaWrite = "ok"

(***************************************************************************)
(* C26: the pages that observe show the last snapshot they were given:     *)
(* after a callback with data, the displayed click count is the            *)
(* totalClicks of that data and the displayed analytics data is that data; *)
(* and giving a page the same data a second time changes nothing.          *)
(***************************************************************************)
\* the page shows what its last callback carried
ShowsLast(s) ==
    /\ s.page.analyticsData = s.last
    /\ s.page.clickCount = OrZero(s.last.totalClicks)

\* the callback of the page that observes this subscription
PageCallbackOf(s, data) ==
    IF s.version = "realtime" THEN RealTimePageCallback(s.page, data)
    ELSE PageCallback(s.page, data)

C26_LastSnapshotWins ==
    [][(sub'.last # sub.last /\ Exists(sub'.last)) =>
          /\ ShowsLast(sub')
          /\ PageCallbackOf(sub', sub'.last) = sub'.page]_vars

(***************************************************************************)
(* C27: when a trackClick call is over, its update of the Mapping          *)
(* (clicks + 1) and its update of the Ledger (totalClicks + 1, the event   *)
(* added) have both been applied by the store, or neither has.             *)
(***************************************************************************)
C27_TrackClickBothOrNeither ==
    \A k \in Tracks :
       tracks[k].pc = "done" =>
          (tracks[k].urlWrite = "ok" <=> tracks[k].anaWrite = "ok")

(***************************************************************************)
(* C28: the setDoc with which getAnalyticsData, or the snapshot handler of *)
(* subscribeToAnalytics, creates the Ledger it found missing removes no    *)
(* Click Event that is stored by then and does not lower totalClicks.      *)
(***************************************************************************)
C28_CreationKeepsLedger ==
    [][\A k \in Reads :
         (reads[k].pc = "create" /\ reads'[k].pc = "done"
             /\ analytics' # analytics) =>
            LET c == reads[k].shortCode
                old == EventsOf(analytics[c])
                new == EventsOf(analytics'[c])
            IN /\ Len(new) >= Len(old)
               /\ SubSeq(new, 1, Len(old)) = old
               /\ TotalClicksOf(analytics'[c]) >= TotalClicksOf(analytics[c])]_vars

(***************************************************************************)
(* C29: subscribeToAnalytics of lib/analytics.ts calls back in the order   *)
(* in which the snapshots were received: a snapshot is not called back     *)
(* while an earlier one is still awaiting its repair, the awaiting ones    *)
(* are called back oldest first, and a callback made when nothing is       *)
(* awaiting any more is the one of the newest snapshot received.           *)
(***************************************************************************)
C29_CallbacksInSnapshotOrder ==
    [][sub.version = "analytics" =>
         /\ (sub'.seen # sub.seen /\ Len(sub'.fixes) = Len(sub.fixes)) =>
                sub.fixes = <<>>
         /\ Len(sub'.fixes) < Len(sub.fixes) =>
                /\ sub'.fixes = Tail(sub.fixes)
                /\ sub'.fixes = <<>> => sub.fixes[1].snap = sub.seen]_vars

(***************************************************************************)
(* C30: the repair of the snapshot handler of subscribeToAnalytics does    *)
(* not feed itself.  With no other writer, a repair is started only for a  *)
(* Ledger that needs one, at most one is awaited at a time, its write      *)
(* leaves a Ledger that needs none, and the handler writes the Ledger at   *)
(* most once however many snapshots follow.                                *)
(***************************************************************************)
C30_AutoFixEnds ==
    /\ [][Len(sub'.fixes) > Len(sub.fixes) =>
             NeedsFix(analytics[sub.shortCode])]_vars
    /\ [][analytics' # analytics =>
             /\ NeedsFix(analytics[sub.shortCode])
             /\ ~NeedsFix(analytics'[sub.shortCode])
             /\ sub'.fixes = <<>>]_vars
    /\ [](Len(sub.fixes) <= 1)
    /\ [](\A c \in Codes :
             ver.analytics[c] <= FirstVersion(analytics[c]) + 1)

\* the repair has written and the snapshot of its write has been called
\* back without a further repair
C30_Witness ==
    /\ sub.version = "analytics"
    /\ ver.analytics[sub.shortCode] = 2
    /\ sub.seen = Snap(sub.shortCode)
    /\ sub.fixes = <<>>
    /\ sub.last = analytics[sub.shortCode]
    /\ analytics[sub.shortCode].totalClicks = MaxStoredEvents

====
